---- MODULE Spec2Model ----
(***************************************************************************)
(* Model of qahirah_xcffib.Connection: the readable-fd subscription, the   *)
(* event filter list, the reply queue and the sequence tracker of          *)
(* wait_for_reply, together with the parts of the event loop and of the    *)
(* XCB transport that the Connection talks to.                             *)
(*                                                                         *)
(* The program is single threaded.  A readiness callback                   *)
(* (_handle_conn_readable) is split at the points where it hands control   *)
(* to a filter action, because a filter action may call back into          *)
(* add_event_filter, remove_event_filter and wait_for_reply; pc records    *)
(* the callback's position.  Everything else runs only while pc = "idle".  *)
(*                                                                         *)
(* The transport is taken as the source uses it: request_cookie.reply()    *)
(* returns, poll_for_event() returns an event or None or raises an         *)
(* XcffibException, has_error() tells whether the connection is broken and *)
(* get_file_descriptor() raises ConnectionException once it is.  Filter    *)
(* actions return normally.                                                *)
(*                                                                         *)
(* AtomCache (SpecAtom) is modelled with its two dictionaries, the pending *)
(* tables, the lookup queue and the drain task.  A key of name_to_atom is   *)
(* a str or a bytes object: calls encode their argument to bytes, the      *)
(* preload stores the str names of class XA.  Decoding of results is not   *)
(* modelled.  A lookup that every caller has left is retired from the      *)
(* history.                                                                *)
(*                                                                         *)
(* Window (SpecWin) is modelled with its filter list, its parent and its   *)
(* children, on top of the Connection's dispatch.  The selevents set of a  *)
(* filter is a Python object that the copy made by _conn_event_filter      *)
(* shares with the live list; the copy records that sharing.  In SpecWin   *)
(* Window objects stay alive, set_parent is only called where it makes no  *)
(* cycle, the connection does not fail, and a window filter action changes *)
(* the filters of its own window only.  SpecWinLife adds the finalization  *)
(* of Window objects, SpecTree the set_parent calls the server refuses,    *)
(* SpecWinErr the delivery of a connection error to the window filters.    *)
(*                                                                         *)
(* KeyMapping is modelled as the table built by __init__ from a            *)
(* GetKeyboardMapping reply (SpecKey) and as map_simple on a built table   *)
(* whose three public attributes the application may assign (SpecKeyMap).  *)
(* evt.state is held as the set of modifiers whose mask bit is set.        *)
(*                                                                         *)
(* ButtonHandler (SpecButton) is modelled with its three flags and with    *)
(* what its two callbacks were invoked for; its event handlers are called  *)
(* in any order.                                                           *)
(***************************************************************************)
EXTENDS Integers, Sequences, FiniteSets, TLC

\* ------------------------------------------------------------------ bounds
MaxFilters == 2     \* distinct (action, args) filter keys the application uses
MaxFutures == 2     \* futures created by wait_for_reply in one run
MaxEvents == 1      \* events the server sends in one run
MaxNames == 1       \* atom names the application uses besides the predefined one
MaxWindows == 2     \* Window objects
MaxWinFilters == 2  \* window filters registered at a time, and their distinct (action, args) keys
MaxCalls == 2       \* lookups created plus calls waiting for another call's lookup
MaxTable == 5       \* keysyms in a GetKeyboardMapping reply, and keysyms per keycode
MaxFinalized == 2   \* dispatch entries of finalized Window objects in the Connection
MaxClicks == 2      \* invocations of handle_click in one run

\* ------------------------------------------------------- Python values
None == "None"
FD == "fd"          \* the descriptor conn.get_file_descriptor() returned at construction

\* Python integers are unbounded; sequence numbers near 2^32 do not fit the
\* model checker's integers, so a number n is held as <<n \div 2^16, n % 2^16>>.
Base == 2^16
Num(n) == <<n \div Base, n % Base>>
Wide(hi, lo) == <<hi, lo>>
WLess(a, b) == a[1] < b[1] \/ (a[1] = b[1] /\ a[2] < b[2])
WAdd(a, b) == <<a[1] + b[1] + ((a[2] + b[2]) \div Base), (a[2] + b[2]) % Base>>

\* the value None where a number is expected (last_sequence)
NoSeq == <<>>

\* sequence_jump = 1 << 30
sequence_jump == Wide(2^14, 0)

\* sequence numbers of the cookies the application passes to wait_for_reply:
\* 50, 2^30 + 50 (the largest last_sequence for which 50 is not a wraparound)
\* and 2^32 - 100
SeqValues ==
  { Num(50), WAdd(sequence_jump, Num(50)), Wide(Base - 1, Base - 100) }
\* a request cookie: its sequence number, and whether it is a VoidCookie
Cookies == [sequence : SeqValues, void : BOOLEAN]

FilterKeys == 1..MaxFilters

\* what a filter action is handed: the n-th event the server sent, or the
\* ConnectionException caught by the readiness callback
Ev(n) == <<"event", n>>
ConnErr == <<"conn_err">>
NoEvent == <<>>
NotAscending == <<"no">>

Range(s) == {s[i] : i \in 1..Len(s)}
RemoveAt(s, i) == SubSeq(s, 1, i - 1) \o SubSeq(s, i + 1, Len(s))

VARIABLES
  conn,            \* self.conn: "open", or None after close()
  conn_fd,         \* self._conn_fd: FD or None
  event_filters,   \* self._event_filters: sequence of filter keys
  reply_queue,     \* self._reply_queue: sequence of futures awaiting reply_ready_action
  last_sequence,   \* self.last_sequence: NoSeq (None) or a sequence number
  reader,          \* the event loop holds a reader for FD calling _handle_conn_readable
  broken,          \* the transport has a fatal error (has_error(), get_file_descriptor() raises)
  pending_events,  \* events buffered in the transport, oldest first
  nevents,         \* events the server has sent so far
  fut,             \* fut[f]: state of the f-th future created by wait_for_reply
  sets,            \* sets[f]: number of set_result/set_exception calls made on future f
  ascending,       \* history of the wait_for_reply calls: NoSeq before the first call,
                   \* the last sequence number passed while every call so far was
                   \* non-void with a strictly larger sequence number, NotAscending otherwise
  exc,             \* exception that ended the most recent call or callback, or None
  pc,              \* position of the running readiness callback, "idle" if none
  snapshot,        \* the copy of event_filters the callback is dispatching from
  event,           \* the event (or connection error) being dispatched
  log,             \* <<event, filter>> invocations made so far by the running callback
  buffered,        \* the events that were buffered in the transport when the running
                   \* callback started, until the callback has left its event loop
  \* ---- AtomCache
  name_to_atom,          \* self.name_to_atom: set of <<name, atom>>
  atom_to_name,          \* self.atom_to_name: set of <<atom, name>>
  preload_standard,      \* self.preload_standard
  lookup_process,        \* self._lookup_process: 0 (None) or the drain task
  lookup_queue,          \* self._lookup_queue: do_lookup coroutines not yet started
  name_lookup_pending,   \* self._name_lookup_pending: set of <<name, lookup>>
  atom_lookup_pending,   \* self._atom_lookup_pending: set of <<atom, lookup>>
  lookups,               \* every do_lookup coroutine created, with its lookup_done
                         \* future and the calls suspended on that future
  tasks,                 \* the _process_queue tasks that have not finished: set of
                         \* <<task, state>>, a task being named after the lookup
                         \* whose call created it
  server_names,          \* names that have an atom on the server
  \* ---- Window
  win_filters,           \* win_filters[w]: w._event_filters, entries (key, selevents)
  parent,                \* parent[w]: w._parent, 0 for None
  children,              \* children[w]: w._children
  wstack,                \* the running invocations of Window._conn_event_filter,
                         \* innermost last
  \* ---- KeyMapping
  k_mapping,             \* the GetKeyboardMapping reply a KeyMapping is about to be
                         \* built from, Nothing once it is built
  code_syms,             \* self._code_syms: set of <<keycode, entry>>
  mode_switch_mod,       \* self.mode_switch_mod: Nothing (None) or a STATE member
  numlock_mod,           \* self.numlock_mod: Nothing (None) or a STATE member
  lock_is_shift_lock,    \* self.lock_is_shift_lock
  keysym,                \* outcome of the latest map_simple call
  \* ---- ButtonHandler
  enabled,               \* self.enabled
  pressed,               \* self.pressed
  entered,               \* self.entered
  drawn,                 \* the BUTTON_STATE handle_draw was last invoked with
  clicks,                \* invocations of handle_click so far
  last_call              \* the method of the ButtonHandler that ran last

cvars == <<conn, conn_fd, event_filters, reply_queue, last_sequence, reader,
           fut, sets, ascending, exc>>
tvars == <<broken, pending_events, nevents>>
dvars == <<pc, snapshot, event, log, buffered>>
avars == <<name_to_atom, atom_to_name, preload_standard, lookup_process,
           lookup_queue, name_lookup_pending, atom_lookup_pending, lookups,
           tasks, server_names>>
wvars == <<win_filters, parent, children, wstack>>
kvars == <<k_mapping, code_syms, mode_switch_mod, numlock_mod,
           lock_is_shift_lock, keysym>>
bvars == <<enabled, pressed, entered, drawn, clicks, last_call>>
vars == <<conn, conn_fd, event_filters, reply_queue, last_sequence, reader,
          fut, sets, ascending, exc, broken, pending_events, nevents,
          pc, snapshot, event, log, buffered,
          name_to_atom, atom_to_name, preload_standard, lookup_process,
          lookup_queue, name_lookup_pending, atom_lookup_pending, lookups,
          tasks, server_names,
          win_filters, parent, children, wstack,
          k_mapping, code_syms, mode_switch_mod, numlock_mod,
          lock_is_shift_lock, keysym,
          enabled, pressed, entered, drawn, clicks, last_call>>

\* ------------------------------------------------------------- atoms
\* class XA: the predefined atoms, of which the model keeps PRIMARY = 1
LAST_PREDEFINED == 68

\* a name as a Python value: a str and a bytes object of the same characters
\* are different values and different dictionary keys
Str(s) == <<"str", s>>
Bytes(s) == <<"bytes", s>>
Text(n) == n[2]

\* if isinstance(name, str) : name = name.encode()
encode(name) == IF name[1] = "str" THEN Bytes(Text(name)) ELSE name

\* XA_NAME: (n, getattr(XA, n)) for n in dir(XA): the attribute names of
\* class XA, which are str objects
XA_NAME == { <<Str("PRIMARY"), 1>> }

AppNames == <<"WM_A", "WM_B", "WM_C", "WM_D">>
Names == {"PRIMARY"} \cup {AppNames[i] : i \in 1..MaxNames}
\* the name argument of a call: str or bytes
NameArgs == {Str(n) : n \in Names} \cup {Bytes(n) : n \in Names}
\* the atom the server has or would assign for a name
ServerAtom(name) ==
  IF name = "PRIMARY" THEN 1
  ELSE LAST_PREDEFINED + (CHOOSE i \in 1..Len(AppNames) : AppNames[i] = name)
ServerName(atom) == CHOOSE n \in Names : ServerAtom(n) = atom

\* a Python value that may be None: <<>> is None, <<v>> is v
Nothing == <<>>
Some(v) == <<v>>

\* dicts as sets of <<key, value>>
DictHas(d, k) == \E p \in d : p[1] = k
DictGet(d, k) == (CHOOSE p \in d : p[1] = k)[2]
DictPut(d, k, v) == {p \in d : p[1] # k} \cup {<<k, v>>}
DictDel(d, k) == {p \in d : p[1] # k}
Swap(d) == {<<p[2], p[1]>> : p \in d}

\* AtomCache._do_preload_standard: every item of XA_NAME is stored in both
\* maps, over whatever the maps hold for that name or that atom
do_preload_standard(n2a, a2n, preload) ==
  IF preload
    THEN [n2a |-> {p \in n2a : ~DictHas(XA_NAME, p[1])} \cup XA_NAME,
          a2n |-> {p \in a2n : ~DictHas(Swap(XA_NAME), p[1])} \cup Swap(XA_NAME)]
    ELSE [n2a |-> n2a, a2n |-> a2n]
\* a flush that forgets to clear atom_to_name
flush_forward_only(n2a, a2n, preload) == do_preload_standard({}, a2n, preload)

\* AtomCache.__init__(conn, preload_standard) followed by nothing else
AtomCacheInit(preload) ==
  /\ preload_standard = preload
  /\ name_to_atom = (IF preload THEN XA_NAME ELSE {})
  /\ atom_to_name = (IF preload THEN Swap(XA_NAME) ELSE {})
  /\ lookup_process = 0
  /\ lookup_queue = <<>>
  /\ name_lookup_pending = {}
  /\ atom_lookup_pending = {}
  /\ lookups = <<>>
  /\ tasks = {}
  /\ server_names = {"PRIMARY"}

\* ------------------------------------------------------------ windows
Windows == 1..MaxWindows
WinKeys == 1..MaxWinFilters

\* Window.__new__ for every window: no filters, no parent, no children
WindowInit ==
  /\ win_filters = [w \in Windows |-> <<>>]
  /\ parent = [w \in Windows |-> 0]
  /\ children = [w \in Windows |-> {}]
  /\ wstack = <<>>

ConnectionInit ==
  /\ conn = "open"
  /\ conn_fd = FD
  /\ event_filters = <<>>
  /\ reply_queue = <<>>
  /\ last_sequence = NoSeq
  /\ reader = FALSE
  /\ broken = FALSE
  /\ pending_events = <<>>
  /\ nevents = 0
  /\ fut = <<>>
  /\ sets = <<>>
  /\ ascending = NoSeq
  /\ exc = None
  /\ pc = "idle"
  /\ snapshot = <<>>
  /\ event = NoEvent
  /\ log = <<>>
  /\ buffered = <<>>

\* ---------------------------------------------------------- key mapping
\* the outcome of a call: the value returned, or that it raised
Returned(v) == [raised |-> FALSE, value |-> v]
Raised == [raised |-> TRUE, value |-> 0]
NoCall == Returned(0)

\* KeyMapping.__init__ has set the attributes; reply is the mapping still to
\* be handed to it, Nothing if the object is built
KeyMappingInit(reply, syms) ==
  /\ k_mapping = reply
  /\ code_syms = syms
  /\ mode_switch_mod = Nothing
  /\ numlock_mod = Some("MOD2")
  /\ lock_is_shift_lock = FALSE
  /\ keysym = NoCall

\* ButtonHandler.__init__(..., enabled, ...): nothing is drawn before the
\* first Expose event
ButtonInit(e) ==
  /\ enabled = e
  /\ pressed = FALSE
  /\ entered = FALSE
  /\ drawn = "none"
  /\ clicks = 0
  /\ last_call = "init"

Init ==
  /\ ConnectionInit
  /\ AtomCacheInit(TRUE)
  /\ WindowInit
  /\ KeyMappingInit(Nothing, {})
  /\ ButtonInit(TRUE)

\* ----------------------------------------------------------- event loop
\* loop.add_reader(fd, ...) / loop.remove_reader(fd): asyncio rejects a file
\* object that is neither an int nor has fileno() with ValueError, so a call
\* made with the cached fd already None raises and changes no subscription.
LoopAcceptsFd(fd) == fd # None

\* variant: the reply queue is forgotten when counting waiters
NoWaitersFiltersOnly(filters, queue) == Len(filters) = 0

\* len(self._event_filters) + len(self._reply_queue) == 0
NoWaiters(filters, queue) == Len(filters) + Len(queue) = 0

\* ------------------------------------------------------- wait_for_reply
\* variant: no wraparound disjunct
incr_sequence_nowrap(last, seq) ==
  \/ last = NoSeq
  \/ WLess(last, seq)

\* incr_sequence: the request is newer than anything awaited so far
incr_sequence(last, seq) ==
  \/ last = NoSeq
  \/ WLess(last, seq)
  \/ WLess(WAdd(seq, sequence_jump), last)

\* variant: has_error() is not consulted, the reply is always set as the result
reply_ready_action_noerr(fs, ss, f) ==
  IF conn = None
    THEN [fut |-> fs, sets |-> ss, exc |-> "AttributeError"]
  ELSE IF fs[f] # "pending"
    THEN [fut |-> fs, sets |-> [ss EXCEPT ![f] = @ + 1], exc |-> "InvalidStateError"]
  ELSE [fut |-> [fs EXCEPT ![f] = "reply"],
        sets |-> [ss EXCEPT ![f] = @ + 1],
        exc |-> None]

\* reply_ready_action(self, result) for future f, given the futures fs and
\* their set counts ss.  request_cookie.reply() returns
\* (the transport's block_for_reply), then self.conn.has_error() decides between
\* set_exception and set_result.  With self.conn = None the has_error call
\* raises AttributeError; setting a future that is already done raises
\* InvalidStateError.
reply_ready_action(fs, ss, f) ==
  IF conn = None
    THEN [fut |-> fs, sets |-> ss, exc |-> "AttributeError"]
  ELSE IF fs[f] # "pending"
    THEN [fut |-> fs, sets |-> [ss EXCEPT ![f] = @ + 1], exc |-> "InvalidStateError"]
  ELSE [fut |-> [fs EXCEPT ![f] = IF broken THEN "exception" ELSE "reply"],
        sets |-> [ss EXCEPT ![f] = @ + 1],
        exc |-> None]

\* variant: every non-void request is queued
ReplyPathAlwaysQueue(void, incr) ==
  IF void THEN "void" ELSE "queue"

\* variant: every non-void request is fetched synchronously
ReplyPathAlwaysSync(void, incr) ==
  IF void THEN "void" ELSE "sync"

\* the three-way branch of wait_for_reply: complete at once (VoidCookie),
\* fetch the reply synchronously (not incr_sequence), or queue
ReplyPath(void, incr) ==
  IF void THEN "void" ELSE IF ~incr THEN "sync" ELSE "queue"

\* Connection.wait_for_reply(request_cookie).  The future it returns is the
\* next index of fut; a call that raises returns no future.
wait_for_reply(c) ==
  LET incr == incr_sequence(last_sequence, c.sequence)
      path == ReplyPath(c.void, incr)
      f == Len(fut) + 1
      fut0 == Append(fut, "pending")
      sets0 == Append(sets, 0)
  IN
  /\ Len(fut) < MaxFutures
  /\ last_sequence' = IF incr THEN c.sequence ELSE last_sequence
  /\ ascending' = IF /\ ~c.void
                       /\ \/ ascending = NoSeq
                          \/ ascending # NotAscending /\ WLess(ascending, c.sequence)
                    THEN c.sequence ELSE NotAscending
  /\ UNCHANGED <<conn, conn_fd, event_filters>>
  /\ IF path = "void"
       THEN /\ fut' = Append(fut, "none")
            /\ sets' = Append(sets, 1)
            /\ exc' = None
            /\ UNCHANGED <<reply_queue, reader>>
     ELSE IF path = "sync"
       THEN LET r == reply_ready_action(fut0, sets0, f) IN
            IF r.exc # None
              THEN /\ exc' = r.exc
                   /\ UNCHANGED <<fut, sets, reply_queue, reader>>
              ELSE /\ fut' = r.fut
                   /\ sets' = r.sets
                   /\ exc' = None
                   /\ UNCHANGED <<reply_queue, reader>>
     ELSE IF NoWaiters(event_filters, reply_queue) /\ ~LoopAcceptsFd(conn_fd)
       THEN /\ exc' = "ValueError"
            /\ UNCHANGED <<fut, sets, reply_queue, reader>>
     ELSE /\ reader' = IF NoWaiters(event_filters, reply_queue) THEN TRUE ELSE reader
          /\ reply_queue' = Append(reply_queue, f)
          /\ fut' = fut0
          /\ sets' = sets0
          /\ exc' = None

\* ------------------------------------------------------- event filters
\* variant: only the oldest entry is compared with the new key
IsRegisteredHeadOnly(filters, k) == filters # <<>> /\ Head(filters) = k

\* any(elt == newelt for elt in self._event_filters)
IsRegistered(filters, k) == \E i \in 1..Len(filters) : filters[i] = k

\* variant: optional is not looked at
NotFoundAlwaysRaise(optional) == "KeyError"

\* remove_event_filter found no entry: if not optional : raise KeyError
NotFound(optional) == IF optional THEN None ELSE "KeyError"

\* Connection.add_event_filter(action, args) with key k = (action, args)
add_event_filter(k) ==
  /\ UNCHANGED <<conn, conn_fd, reply_queue, last_sequence, fut, sets, ascending>>
  /\ IF IsRegistered(event_filters, k)
       THEN /\ exc' = "KeyError"
            /\ UNCHANGED <<event_filters, reader>>
     ELSE IF NoWaiters(event_filters, reply_queue) /\ ~LoopAcceptsFd(conn_fd)
       THEN /\ exc' = "ValueError"
            /\ UNCHANGED <<event_filters, reader>>
     ELSE /\ reader' = IF NoWaiters(event_filters, reply_queue) THEN TRUE ELSE reader
          /\ event_filters' = Append(event_filters, k)
          /\ exc' = None

\* Connection.remove_event_filter(action, args, optional = ...)
remove_event_filter(k, optional) ==
  LET pos == {i \in 1..Len(event_filters) : event_filters[i] = k} IN
  /\ UNCHANGED <<conn, conn_fd, reply_queue, last_sequence, fut, sets, ascending>>
  /\ IF Cardinality(pos) = 1
       THEN LET left == RemoveAt(event_filters, CHOOSE i \in pos : TRUE) IN
            /\ event_filters' = left
            /\ reader' = IF conn_fd # None /\ NoWaiters(left, reply_queue)
                           THEN FALSE ELSE reader
            /\ exc' = None
     ELSE /\ exc' = NotFound(optional)
          /\ UNCHANGED <<event_filters, reader>>

\* Connection.close()
close ==
  /\ UNCHANGED <<event_filters, reply_queue, last_sequence, reader, fut, sets,
                 ascending>>
  /\ exc' = None
  /\ IF conn # None
       THEN conn' = None /\ conn_fd' = None
       ELSE UNCHANGED <<conn, conn_fd>>

\* ------------------------------------------- calls made by the application
WaitForReply ==
  /\ pc = "idle"
  /\ \E c \in Cookies : wait_for_reply(c)
  /\ UNCHANGED <<tvars, dvars, avars, kvars, bvars, wvars>>

AddEventFilter ==
  /\ pc = "idle"
  /\ \E k \in FilterKeys : add_event_filter(k)
  /\ UNCHANGED <<tvars, dvars, avars, kvars, bvars, wvars>>

RemoveEventFilter ==
  /\ pc = "idle"
  /\ \E k \in FilterKeys, optional \in BOOLEAN : remove_event_filter(k, optional)
  /\ UNCHANGED <<tvars, dvars, avars, kvars, bvars, wvars>>

Close ==
  /\ pc = "idle"
  /\ close
  /\ UNCHANGED <<tvars, dvars, avars, kvars, bvars, wvars>>

\* what a filter action may do while it is being invoked
FilterAction ==
  \/ UNCHANGED cvars
  \/ \E k \in FilterKeys : add_event_filter(k)
  \/ \E k \in FilterKeys : remove_event_filter(k, TRUE)
  \/ \E c \in Cookies : wait_for_reply(c)

\* ------------------------------------------------------------ transport
\* the server sends an event; it is buffered by the transport
EventArrives ==
  /\ conn = "open"
  /\ ~broken
  /\ nevents < MaxEvents
  /\ nevents' = nevents + 1
  /\ pending_events' = Append(pending_events, Ev(nevents + 1))
  /\ UNCHANGED <<broken, cvars, dvars, avars, kvars, bvars, wvars>>

\* the connection to the server fails for good
TransportBreaks ==
  /\ conn = "open"
  /\ ~broken
  /\ broken' = TRUE
  /\ UNCHANGED <<pending_events, nevents, cvars, dvars, avars, kvars, bvars, wvars>>

\* ------------------------------------------------ _handle_conn_readable
\* variant: pop() instead of pop(0)
QueuePopLast(q) == [item |-> q[Len(q)], rest |-> SubSeq(q, 1, Len(q) - 1)]

\* variant: the head is read but not removed
QueuePeek(q) == [item |-> Head(q), rest |-> q]

\* self._reply_queue.pop(0): the entry taken and what is left
QueuePop(q) == [item |-> Head(q), rest |-> Tail(q)]

\* variant: the cached fd is kept when the probe fails
ProbeFdKeep(fd, isbroken) == fd

\* try: self.conn.get_file_descriptor() except ConnectionException:
\* self._conn_fd = None -- the cached fd after the probe
ProbeFd(fd, isbroken) == IF isbroken THEN None ELSE fd

\* variant: events are looked at first, a reply only if no event is buffered
ServeReplyIfNoEvent(queue, events) == queue # <<>> /\ events = <<>>

\* if len(self._reply_queue) != 0, tested before any event is polled
ServeReply(queue, events) == queue # <<>>

\* The loop calls the callback while the reader is installed.  First part:
\* the reply queue.  On a closed Connection (self.conn = None) every path
\* raises before the subscription is looked at again: reply_ready_action or
\* poll_for_event on None, or remove_reader(None).
HandleConnReadable ==
  /\ pc = "idle"
  /\ reader
  /\ UNCHANGED <<conn, conn_fd, event_filters, last_sequence, reader, ascending,
                 tvars, snapshot, event, log, avars, kvars, bvars, wvars>>
  /\ IF ServeReply(reply_queue, pending_events)
       THEN LET popped == QueuePop(reply_queue)
                r == reply_ready_action(fut, sets, popped.item)
            IN
            /\ reply_queue' = popped.rest
            /\ fut' = r.fut
            /\ sets' = r.sets
            /\ exc' = r.exc
            /\ pc' = IF r.exc = None THEN "poll" ELSE "idle"
     ELSE /\ UNCHANGED <<reply_queue, fut, sets>>
          /\ exc' = IF conn = None
                      THEN (IF event_filters # <<>> THEN "AttributeError" ELSE "ValueError")
                      ELSE None
          /\ pc' = IF conn = None THEN "idle" ELSE "poll"
  /\ buffered' = (IF pc' = "idle" THEN <<>> ELSE pending_events)

\* while True: poll_for_event() unless there are no filters
PollForEvent ==
  /\ pc = "poll"
  /\ UNCHANGED <<cvars, broken, nevents, log, buffered, avars, kvars, bvars, wvars>>
  /\ IF event_filters = <<>>
       THEN pc' = "finish" /\ UNCHANGED <<pending_events, snapshot, event>>
     ELSE \/ /\ ~broken /\ pending_events # <<>>
             /\ event' = Head(pending_events)
             /\ pending_events' = Tail(pending_events)
             /\ snapshot' = event_filters
             /\ pc' = "dispatch"
          \/ /\ ~broken /\ pending_events # <<>>
             \* XcffibException while reading the event: treated as no event
             /\ pending_events' = Tail(pending_events)
             /\ pc' = "finish"
             /\ UNCHANGED <<snapshot, event>>
          \/ /\ broken \/ pending_events = <<>>
             /\ pc' = "finish"
             /\ UNCHANGED <<pending_events, snapshot, event>>

\* variant: entries that have left the live list meanwhile are skipped
DispatchListLive(snap, live) == SelectSeq(snap, LAMBDA k : k \in Range(live))

\* event_filters = self._event_filters[:] ... event_filters.pop(0): the loop
\* works through what is left of its own copy, whatever the live list has become
DispatchList(snap, live) == snap

\* variant: "if" in place of the outer "while True": one event per callback
AfterDispatchOnce == "finish"

\* the outer "while True" of the event loop: when the copy of the filter
\* list is used up, control is back at the test of the filter list and the
\* next poll_for_event()
AfterDispatch == "poll"

\* action(event, *args) for the next entry of the copied filter list
DispatchEvent ==
  LET todo == DispatchList(snapshot, event_filters) IN
  /\ pc = "dispatch"
  /\ UNCHANGED <<tvars, event, buffered, avars, kvars, bvars, wvars>>
  /\ IF todo = <<>>
       THEN pc' = AfterDispatch /\ UNCHANGED <<cvars, snapshot, log>>
     ELSE /\ snapshot' = Tail(todo)
          /\ log' = Append(log, <<event, Head(todo)>>)
          /\ pc' = "dispatch"
          /\ FilterAction

\* remove the reader, probe the transport, add the reader back if needed
FinishReadable ==
  /\ pc = "finish"
  /\ UNCHANGED <<conn, event_filters, reply_queue, last_sequence, fut, sets,
                 ascending, tvars, avars, kvars, bvars, wvars>>
  /\ buffered' = <<>>
  /\ IF ~LoopAcceptsFd(conn_fd)
       THEN /\ exc' = "ValueError"
            /\ pc' = "idle"
            /\ snapshot' = <<>>
            /\ event' = NoEvent
            /\ log' = <<>>
            /\ UNCHANGED <<conn_fd, reader>>
     ELSE /\ conn_fd' = ProbeFd(conn_fd, broken)
          /\ log' = <<>>
          /\ UNCHANGED exc
          /\ IF conn_fd' # None
               THEN /\ reader' = ~NoWaiters(event_filters, reply_queue)
                    /\ pc' = "idle"
                    /\ snapshot' = <<>>
                    /\ event' = NoEvent
               ELSE /\ reader' = FALSE
                    /\ event' = ConnErr
                    /\ snapshot' = event_filters
                    /\ pc' = "deliver_err"

\* for action, args in self._event_filters[:] : action(conn_err, *args)
DeliverError ==
  /\ pc = "deliver_err"
  /\ UNCHANGED <<tvars, buffered, avars, kvars, bvars, wvars>>
  /\ IF snapshot = <<>>
       THEN pc' = "idle" /\ event' = NoEvent /\ log' = <<>> /\ UNCHANGED <<cvars, snapshot>>
     ELSE /\ snapshot' = Tail(snapshot)
          /\ log' = Append(log, <<event, Head(snapshot)>>)
          /\ pc' = "deliver_err"
          /\ FilterAction
          /\ UNCHANGED event

Next ==
  \/ WaitForReply
  \/ AddEventFilter
  \/ RemoveEventFilter
  \/ Close
  \/ EventArrives
  \/ TransportBreaks
  \/ HandleConnReadable
  \/ PollForEvent
  \/ DispatchEvent
  \/ FinishReadable
  \/ DeliverError

Spec == Init /\ [][Next]_vars

\* ============================================================ AtomCache
\* The X server's side of InternAtom(only_if_exists, name): the atom in the
\* reply (0 for none), and the names defined afterwards.
InternAnswer(defined, name, only_if_exists) ==
  IF name \in defined \/ ~only_if_exists THEN ServerAtom(name) ELSE 0
InternDefines(defined, name, only_if_exists) ==
  IF only_if_exists THEN defined ELSE defined \cup {name}

\* variant: the pending map is not consulted
IsPendingNever(pending, key) == FALSE

\* elif name in self._name_lookup_pending / atom in self._atom_lookup_pending
IsPending(pending, key) == DictHas(pending, key)

\* variant: a drain task is created for every new lookup
NeedDrainTaskAlways(process) == TRUE

\* if self._lookup_process == None : ... create_task(self._process_queue(...))
NeedDrainTask(process) == process = 0

\* variant: the reverse map is not filled in
apply_intern_reply_forward(n2a, a2n, name, atom) ==
  IF atom # 0
    THEN [n2a |-> DictPut(n2a, name, atom), a2n |-> a2n, result |-> Some(atom)]
  ELSE [n2a |-> n2a, a2n |-> a2n, result |-> Nothing]

\* variant: atom 0 is not told apart
apply_intern_reply_nozero(n2a, a2n, name, atom) ==
  [n2a |-> DictPut(n2a, name, atom), a2n |-> DictPut(a2n, atom, name),
   result |-> Some(atom)]

\* result = reply.atom; if result != 0 : fill both maps else : result = None
apply_intern_reply(n2a, a2n, name, atom) ==
  IF atom # 0
    THEN [n2a |-> DictPut(n2a, name, atom), a2n |-> DictPut(a2n, atom, name),
          result |-> Some(atom)]
  ELSE [n2a |-> n2a, a2n |-> a2n, result |-> Nothing]

\* result = b"".join(reply.name); fill both maps
apply_name_reply(n2a, a2n, atom, name) ==
  [n2a |-> DictPut(n2a, name, atom), a2n |-> DictPut(a2n, atom, name),
   result |-> Some(name)]

\* the loop of _process_queue, run by task t from its "while True" up to the
\* next point where it is suspended: it pops the next coroutine and runs it
\* up to "await conn.wait_for_reply(res)" (the request is sent), or finds the
\* queue empty, sets _lookup_process = None and terminates
StartNext(queue, lks, tks, t) ==
  IF queue = <<>>
    THEN [queue |-> queue, lookups |-> lks,
          tasks |-> DictDel(tks, t), process |-> 0]
  ELSE [queue |-> Tail(queue),
        lookups |-> [lks EXCEPT ![Head(queue)].st = "awaiting",
                                ![Head(queue)].nreq = @ + 1,
                                ![Head(queue)].task = t],
        tasks |-> DictPut(tks, t, "waiting"),
        process |-> lookup_process]

\* a lookup whose future is resolved and that no call waits for any more is
\* history: only its place in the order of lookups is kept
Retired ==
  [kind |-> "intern", name |-> "", atom |-> 0, create_if |-> FALSE,
   st |-> "retired", nreq |-> 0, result |-> Nothing, task |-> 0,
   first |-> "returned", joined |-> 0, jcreate |-> <<>>]
Retire(lks) ==
  [l \in 1..Len(lks) |->
     IF lks[l].st = "done" /\ lks[l].first = "returned" /\ lks[l].joined = 0
       THEN Retired ELSE lks[l]]

\* calls suspended on the future of another call's lookup
Joined == LET sum[i \in 0..Len(lookups)] ==
                IF i = 0 THEN 0 ELSE sum[i - 1] + lookups[i].joined
          IN sum[Len(lookups)]

\* result = await self._..._lookup_pending[key] for the future of lookup l:
\* a future that is already resolved hands over its result at once;
\* jcreate keeps, for the calls that wait, the create_if each was made with
join_lookup(kind, l, create_if) ==
  IF lookups[l].st = "done"
    THEN         /\ UNCHANGED lookups
  ELSE /\ Len(lookups) + Joined < MaxCalls
       /\ lookups' = [lookups EXCEPT ![l].joined = @ + 1,
                                     ![l].jcreate = Append(@, create_if)]

\* the else branch shared by intern_atom_async and get_atom_name_async:
\* create the future and the coroutine, queue it, start a drain task if
\* there is none, and wait for the future
new_lookup(kind, name, atom, create_if) ==
  LET l == Len(lookups) + 1 IN
  /\ Len(lookups) + Joined < MaxCalls
  /\ lookups' = Append(lookups,
                  [kind |-> kind, name |-> name, atom |-> atom,
                   create_if |-> create_if, st |-> "queued", nreq |-> 0,
                   result |-> Nothing, task |-> 0,
                   first |-> "waiting", joined |-> 0, jcreate |-> <<>>])
  /\ lookup_queue' = Append(lookup_queue, l)
  /\ IF NeedDrainTask(lookup_process)
       THEN /\ tasks' = DictPut(tasks, l, "ready")
            /\ lookup_process' = l
       ELSE UNCHANGED <<tasks, lookup_process>>

\* AtomCache.intern_atom_async(name, create_if) up to its first suspension.
\* The name of a lookup and the keys of the pending maps are bytes objects
\* throughout; the model keeps their characters.
intern_atom_async(name, create_if) ==
  LET key == Text(encode(name)) IN
  /\ UNCHANGED <<name_to_atom, atom_to_name, preload_standard,
                 atom_lookup_pending, server_names>>
  /\ IF DictHas(name_to_atom, encode(name))
       THEN            /\ UNCHANGED <<lookups, lookup_queue, name_lookup_pending, tasks,
                           lookup_process>>
     ELSE IF IsPending(name_lookup_pending, key)
       THEN /\ join_lookup("intern", DictGet(name_lookup_pending, key), create_if)
            /\ UNCHANGED <<lookup_queue, name_lookup_pending, tasks,
                           lookup_process>>
     ELSE /\ new_lookup("intern", key, 0, create_if)
          /\ name_lookup_pending' =
               DictPut(name_lookup_pending, key, Len(lookups) + 1)

\* AtomCache.get_atom_name_async(atom) up to its first suspension
get_atom_name_async(atom) ==
  /\ UNCHANGED <<name_to_atom, atom_to_name, preload_standard,
                 name_lookup_pending, server_names>>
  /\ IF DictHas(atom_to_name, atom)
       THEN            /\ UNCHANGED <<lookups, lookup_queue, atom_lookup_pending, tasks,
                           lookup_process>>
     ELSE IF IsPending(atom_lookup_pending, atom)
       THEN /\ join_lookup("name", DictGet(atom_lookup_pending, atom), FALSE)
            /\ UNCHANGED <<lookup_queue, atom_lookup_pending, tasks,
                           lookup_process>>
     ELSE /\ new_lookup("name", "", atom, FALSE)
          /\ atom_lookup_pending' =
               DictPut(atom_lookup_pending, atom, Len(lookups) + 1)

\* atoms that are defined on the server (get_atom_name requires one)
DefinedAtoms == {ServerAtom(n) : n \in server_names}

InternAtomAsync ==
  /\ \E name \in NameArgs, create_if \in BOOLEAN : intern_atom_async(name, create_if)
  /\ UNCHANGED <<cvars, tvars, dvars, wvars, kvars, bvars>>

GetAtomNameAsync ==
  /\ \E atom \in DefinedAtoms : get_atom_name_async(atom)
  /\ UNCHANGED <<cvars, tvars, dvars, wvars, kvars, bvars>>

\* AtomCache.intern_atom(name, create_if): the reply is fetched at once
intern_atom(name, create_if) ==
  IF DictHas(name_to_atom, encode(name))
    THEN         /\ UNCHANGED <<name_to_atom, atom_to_name, server_names>>
  ELSE LET key == Text(encode(name))
           r == apply_intern_reply(name_to_atom, atom_to_name, encode(name),
                  InternAnswer(server_names, key, ~create_if))
       IN
       /\ server_names' = InternDefines(server_names, key, ~create_if)
       /\ name_to_atom' = r.n2a
       /\ atom_to_name' = r.a2n

InternAtom ==
  /\ ~broken
  /\ \E name \in NameArgs, create_if \in BOOLEAN : intern_atom(name, create_if)
  /\ UNCHANGED <<preload_standard, lookup_process, lookup_queue,
                 name_lookup_pending, atom_lookup_pending, lookups, tasks>>
  /\ UNCHANGED <<cvars, tvars, dvars, wvars, kvars, bvars>>

\* AtomCache.get_atom_name(atom)
GetAtomName ==
  /\ ~broken
  /\ \E atom \in DefinedAtoms :
       IF DictHas(atom_to_name, atom)
         THEN              /\ UNCHANGED <<name_to_atom, atom_to_name>>
       ELSE LET r == apply_name_reply(name_to_atom, atom_to_name, atom,
                       Bytes(ServerName(atom)))
            IN
            /\ name_to_atom' = r.n2a
            /\ atom_to_name' = r.a2n
  /\ UNCHANGED <<preload_standard, lookup_process, lookup_queue,
                 name_lookup_pending, atom_lookup_pending, lookups, tasks,
                 server_names>>
  /\ UNCHANGED <<cvars, tvars, dvars, wvars, kvars, bvars>>

\* AtomCache.flush()
flush(n2a, a2n, preload) == do_preload_standard({}, {}, preload)

Flush ==
  /\ LET r == flush(name_to_atom, atom_to_name, preload_standard)
     IN /\ name_to_atom' = r.n2a
        /\ atom_to_name' = r.a2n
  /\ UNCHANGED <<preload_standard, lookup_process, lookup_queue,
                 name_lookup_pending, atom_lookup_pending, lookups, tasks,
                 server_names>>
  /\ UNCHANGED <<cvars, tvars, dvars, wvars, kvars, bvars>>

\* the event loop runs a drain task for the first time
ProcessQueueStart ==
  \E t \in {p[1] : p \in tasks} :
    /\ DictGet(tasks, t) = "ready"
    /\ LET n == StartNext(lookup_queue, lookups, tasks, t) IN
       /\ lookup_queue' = n.queue
       /\ lookups' = n.lookups
       /\ tasks' = n.tasks
       /\ lookup_process' = n.process
    /\ UNCHANGED <<name_to_atom, atom_to_name, preload_standard,
                   name_lookup_pending, atom_lookup_pending, server_names>>
    /\ UNCHANGED <<cvars, tvars, dvars, wvars, kvars, bvars>>

\* the server answers the request of a lookup and the Connection resolves
\* the future wait_for_reply returned
ReplyArrives ==
  \E l \in 1..Len(lookups) :
    /\ lookups[l].st = "awaiting"
    /\ ~broken
    /\ IF lookups[l].kind = "intern"
         THEN /\ lookups' = [lookups EXCEPT
                   ![l].st = "replied",
                   ![l].atom = InternAnswer(server_names, lookups[l].name,
                                            ~lookups[l].create_if)]
              /\ server_names' = InternDefines(server_names, lookups[l].name,
                                               ~lookups[l].create_if)
         ELSE /\ lookups' = [lookups EXCEPT
                   ![l].st = "replied",
                   ![l].name = ServerName(lookups[l].atom)]
              /\ UNCHANGED server_names
    /\ UNCHANGED <<name_to_atom, atom_to_name, preload_standard, lookup_process,
                   lookup_queue, name_lookup_pending, atom_lookup_pending,
                   tasks>>
    /\ UNCHANGED <<cvars, tvars, dvars, wvars, kvars, bvars>>

\* the drain task resumes inside do_lookup with the reply: the maps are
\* filled in, lookup_done.set_result(result), and the loop of
\* _process_queue goes on to the next entry
ResumeLookup ==
  \E l \in 1..Len(lookups) :
    /\ lookups[l].st = "replied"
    /\ LET r == IF lookups[l].kind = "intern"
                  THEN apply_intern_reply(name_to_atom, atom_to_name,
                                          Bytes(lookups[l].name), lookups[l].atom)
                  ELSE apply_name_reply(name_to_atom, atom_to_name,
                                        lookups[l].atom, Bytes(lookups[l].name))
           done == [lookups EXCEPT ![l].st = "done", ![l].result = r.result]
           n == StartNext(lookup_queue, done, tasks, lookups[l].task)
       IN
       /\ name_to_atom' = r.n2a
       /\ atom_to_name' = r.a2n
       /\ lookup_queue' = n.queue
       /\ lookups' = n.lookups
       /\ tasks' = n.tasks
       /\ lookup_process' = n.process
    /\ UNCHANGED <<preload_standard, name_lookup_pending, atom_lookup_pending,
                   server_names>>
    /\ UNCHANGED <<cvars, tvars, dvars, wvars, kvars, bvars>>

\* the connection is broken: the future of wait_for_reply is rejected, the
\* exception leaves do_lookup and _process_queue; the task ends with
\* _lookup_process still set and lookup_done never resolved
LookupFails ==
  \E l \in 1..Len(lookups) :
    /\ lookups[l].st = "awaiting"
    /\ broken
    /\ lookups' = [lookups EXCEPT ![l].st = "failed"]
    /\ tasks' = DictPut(tasks, lookups[l].task, "failed")
    /\ UNCHANGED <<name_to_atom, atom_to_name, preload_standard, lookup_process,
                   lookup_queue, name_lookup_pending, atom_lookup_pending,
                   server_names>>
    /\ UNCHANGED <<cvars, tvars, dvars, wvars, kvars, bvars>>

\* the call that created lookup l resumes after "await lookup_done": it
\* asserts that the pending entry is still its own and deletes it
FirstResumes ==
  \E l \in 1..Len(lookups) :
    LET pending == IF lookups[l].kind = "intern"
                     THEN name_lookup_pending ELSE atom_lookup_pending
        key == IF lookups[l].kind = "intern"
                 THEN lookups[l].name ELSE lookups[l].atom
    IN
    /\ lookups[l].st = "done"
    /\ lookups[l].first = "waiting"
    /\ IF DictHas(pending, key) /\ DictGet(pending, key) = l
         THEN /\ lookups' = Retire([lookups EXCEPT ![l].first = "returned"])
              /\ IF lookups[l].kind = "intern"
                   THEN /\ name_lookup_pending' = DictDel(name_lookup_pending, key)
                        /\ UNCHANGED atom_lookup_pending
                   ELSE /\ atom_lookup_pending' = DictDel(atom_lookup_pending, key)
                        /\ UNCHANGED name_lookup_pending
       ELSE /\ lookups' = [lookups EXCEPT ![l].first = "raised"]
            /\ UNCHANGED <<name_lookup_pending, atom_lookup_pending>>
    /\ UNCHANGED <<name_to_atom, atom_to_name, preload_standard, lookup_process,
                   lookup_queue, tasks, server_names>>
    /\ UNCHANGED <<cvars, tvars, dvars, wvars, kvars, bvars>>

\* a call suspended on another call's future resumes; a future wakes its
\* waiters in the order in which they started to wait, so the call that
\* created the lookup has resumed before
JoinedResumes ==
  \E l \in 1..Len(lookups) :
    /\ lookups[l].st = "done"
    /\ lookups[l].first # "waiting"
    /\ lookups[l].joined > 0
    /\ lookups' = Retire([lookups EXCEPT ![l].joined = @ - 1,
                                          ![l].jcreate = Tail(@)])
    /\ UNCHANGED <<name_to_atom, atom_to_name, preload_standard, lookup_process,
                   lookup_queue, name_lookup_pending, atom_lookup_pending,
                   tasks, server_names>>
    /\ UNCHANGED <<cvars, tvars, dvars, wvars, kvars, bvars>>

\* another client of the server interns a name
ServerInterns ==
  /\ ~broken
  /\ \E name \in Names \ server_names : server_names' = server_names \cup {name}
  /\ UNCHANGED <<name_to_atom, atom_to_name, preload_standard, lookup_process,
                 lookup_queue, name_lookup_pending, atom_lookup_pending,
                 lookups, tasks>>
  /\ UNCHANGED <<cvars, tvars, dvars, wvars, kvars, bvars>>

InitAtom ==
  /\ ConnectionInit
  /\ \E preload \in BOOLEAN : AtomCacheInit(preload)
  /\ WindowInit
  /\ KeyMappingInit(Nothing, {})
  /\ ButtonInit(TRUE)

NextAtom ==
  \/ InternAtomAsync
  \/ GetAtomNameAsync
  \/ InternAtom
  \/ GetAtomName
  \/ Flush
  \/ ProcessQueueStart
  \/ ReplyArrives
  \/ ResumeLookup
  \/ LookupFails
  \/ FirstResumes
  \/ JoinedResumes
  \/ ServerInterns
  \/ TransportBreaks

SpecAtom == InitAtom /\ [][NextAtom]_vars

\* =============================================================== Window
\* class X: event codes
KeyPress == 2
ButtonPress == 4
Codes == {KeyPress, ButtonPress}
\* response_type of an event: its code, with the top bit set when the event
\* was sent by another client (SendEvent)
SentBit == 2^7
ResponseTypes == Codes \cup {KeyPress + SentBit}

\* variant: the response type is compared as it is
ResponseCodeRaw(rt) == rt

\* event.response_type & 127
ResponseCode(rt) == rt % SentBit

\* the selevents argument: None (every event), or a set of event codes
Wildcard == [wild |-> TRUE, codes |-> {}]
SelSet(S) == [wild |-> FALSE, codes |-> S]
Selevents == {Wildcard} \cup {SelSet(S) : S \in (SUBSET Codes) \ {{}}}

\* an event of the server: its number, the windows its child / event /
\* window fields name (none if it has no such field, two if for instance
\* event and child differ) and its response_type
WinEv(n, wins, rt) == <<"event", n, wins, rt>>
EventWindow(e) == e[3]
EventResponseType(e) == e[4]
EventWindows == {S \in SUBSET Windows : Cardinality(S) <= 2}

\* isinstance(event, xcffib.Event): what the Connection hands to a filter is
\* an event or, when the connection has failed, the ConnectionException,
\* which has no child / event / window field and no response_type
IsEvent(e) == e[1] = "event"

\* event_window: the windows the event names, none for an error object
event_window(e) == IF IsEvent(e) THEN EventWindow(e) ELSE {}

\* the (Window._conn_event_filter, (weak_ref(w),)) key in the filter list of
\* the Connection
ConnKey(w) == w

cvars_noexc == <<conn, conn_fd, event_filters, reply_queue, last_sequence,
                 reader, fut, sets, ascending>>

\* event_filters = self._event_filters[:]: a new list of the same tuples; a
\* set of event codes is the same object in the copy and in the live list
\* (shared) until the live entry is replaced or dropped.  codes0 remembers
\* the set as it was when the copy was made.
CopyFilters(filters) ==
  [i \in 1..Len(filters) |->
     [key |-> filters[i].key, wild |-> filters[i].wild,
      codes |-> filters[i].codes, shared |-> ~filters[i].wild,
      codes0 |-> filters[i].codes]]

\* if len(event_window) == 0 or self.id in event_window
Relevant(w, e) == event_window(e) = {} \/ w \in event_window(e)

\* Window._conn_event_filter(event, weak_ref(w)) entered
Frame(w, e) ==
  [win |-> w, phase |-> "filters",
   todo |-> IF Relevant(w, e) THEN CopyFilters(win_filters[w]) ELSE <<>>,
   kids |-> {}]

\* the running invocations up to the next filter to look at or the next
\* child to descend into: a finished filter loop is followed by
\* "if len(event_window) != 0 : for child in self._children", a finished
\* invocation returns to the one that called it
RECURSIVE Settle(_, _)
Settle(stk, e) ==
  IF stk = <<>> THEN stk
  ELSE LET top == stk[Len(stk)] IN
       IF top.phase = "filters" /\ top.todo = <<>>
         THEN Settle([stk EXCEPT ![Len(stk)] =
                        [top EXCEPT !.phase = "children",
                                    !.kids = IF event_window(e) # {}
                                               THEN children[top.win] ELSE {}]], e)
       ELSE IF top.phase = "children" /\ top.kids = {}
         THEN Settle(SubSeq(stk, 1, Len(stk) - 1), e)
       ELSE stk

\* eventset -= selevents changes the set object in place: every copy of the
\* filter list that still shares the object sees the codes go
AliasSubtract(stk, w, k, S) ==
  [f \in 1..Len(stk) |->
     IF stk[f].win # w THEN stk[f]
     ELSE [stk[f] EXCEPT !.todo =
             [i \in 1..Len(stk[f].todo) |->
                IF stk[f].todo[i].key = k /\ stk[f].todo[i].shared
                  THEN [stk[f].todo[i] EXCEPT !.codes = @ \ S]
                  ELSE stk[f].todo[i]]]]

\* the live entry gets a new set object or is dropped: copies keep the old one
Unshare(stk, w, k) ==
  [f \in 1..Len(stk) |->
     IF stk[f].win # w THEN stk[f]
     ELSE [stk[f] EXCEPT !.todo =
             [i \in 1..Len(stk[f].todo) |->
                IF stk[f].todo[i].key = k
                  THEN [stk[f].todo[i] EXCEPT !.shared = FALSE]
                  ELSE stk[f].todo[i]]]]

\* window filters registered on all windows together
Registered ==
  LET sum[w \in 0..MaxWindows] ==
        IF w = 0 THEN 0 ELSE sum[w - 1] + Len(win_filters[w])
  IN sum[MaxWindows]

\* variant: the new set takes the place of the stored one
merge_selevents_replace(S, T) == T

\* filters[pos][2] | selevents
merge_selevents(S, T) == S \cup T

\* variant: whatever is passed, nothing is left of the stored set
subtract_selevents_all(S, T) == {}

\* eventset -= selevents: the value of the stored set afterwards
subtract_selevents(S, T) == S \ T

\* variant: the dispatch entry is left to somebody else
need_conn_filter_never(filters) == FALSE

\* add_conn_filter = len(filters) == 0
need_conn_filter(filters) == Len(filters) = 0

\* variant: a second registration without a selector is refused as well
incompatible_or_duplicate(stored_wild, sel_wild) == stored_wild \/ sel_wild

\* (filters[pos][2] != None) != (selevents != None)
incompatible(stored_wild, sel_wild) == stored_wild # sel_wild

\* Window.add_event_filter(action, args, selevents) on window w with key
\* k = (action, args), while the invocations stk are running
win_add_event_filter(w, k, sel, stk) ==
  LET filters == win_filters[w]
      add_conn_filter == need_conn_filter(filters)
      pos == {i \in 1..Len(filters) : filters[i].key = k}
  IN
  /\ pos = {} => Registered < MaxWinFilters
  /\ UNCHANGED <<parent, children>>
  /\ IF pos # {}
       THEN LET i == CHOOSE i \in pos : TRUE IN
            IF incompatible(filters[i].wild, sel.wild)
              THEN /\ exc' = "ValueError"
                   /\ wstack' = stk
                   /\ UNCHANGED <<win_filters, cvars_noexc>>
            ELSE /\ exc' = None
                 /\ UNCHANGED cvars_noexc
                 /\ IF sel.wild
                      THEN /\ wstack' = stk
                           /\ UNCHANGED win_filters
                      ELSE /\ win_filters' =
                                [win_filters EXCEPT ![w][i].codes = merge_selevents(@, sel.codes)]
                           /\ wstack' = Unshare(stk, w, k)
     ELSE /\ win_filters' =
               [win_filters EXCEPT ![w] =
                  Append(@, [key |-> k, wild |-> sel.wild, codes |-> sel.codes])]
          /\ wstack' = stk
          /\ IF add_conn_filter
               THEN add_event_filter(ConnKey(w))
               ELSE exc' = None /\ UNCHANGED cvars_noexc

\* Window.remove_event_filter(action, args, selevents)
win_remove_event_filter(w, k, sel, stk) ==
  LET filters == win_filters[w]
      pos == {i \in 1..Len(filters) : filters[i].key = k}
  IN
  /\ UNCHANGED <<parent, children>>
  /\ IF pos = {}
       THEN /\ exc' = None
            /\ wstack' = stk
            /\ UNCHANGED <<win_filters, cvars_noexc>>
     ELSE LET i == CHOOSE i \in pos : TRUE
              eventset == subtract_selevents(filters[i].codes, sel.codes)
              stk1 == IF sel.wild THEN stk ELSE AliasSubtract(stk, w, k, sel.codes)
          IN
          IF filters[i].wild # sel.wild
            THEN /\ exc' = "ValueError"
                 /\ wstack' = stk
                 /\ UNCHANGED <<win_filters, cvars_noexc>>
          ELSE IF ~filters[i].wild /\ eventset # {}
            THEN /\ win_filters' = [win_filters EXCEPT ![w][i].codes = eventset]
                 /\ wstack' = stk1
                 /\ exc' = None
                 /\ UNCHANGED cvars_noexc
          ELSE /\ win_filters' = [win_filters EXCEPT ![w] = RemoveAt(filters, i)]
               /\ wstack' = Unshare(stk1, w, k)
               /\ IF Len(filters) = 1
                    THEN remove_event_filter(ConnKey(w), TRUE)
                    ELSE exc' = None /\ UNCHANGED cvars_noexc

\* the windows below w
RECURSIVE Below(_, _)
Below(w, depth) ==
  IF depth = 0 THEN {}
  ELSE children[w] \cup UNION {Below(c, depth - 1) : c \in children[w]}

\* Window.set_parent(other, pos); the server accepts the ReparentWindow
\* request (other is neither w nor below w)
set_parent(w, other) ==
  /\ other # w
  /\ other \notin Below(w, MaxWindows)
  /\ children' = [c \in Windows |->
                    IF c = other THEN children[c] \cup {w}
                    ELSE IF c = parent[w] THEN children[c] \ {w}
                    ELSE children[c]]
  /\ parent' = [parent EXCEPT ![w] = other]
  /\ UNCHANGED <<win_filters, wstack>>

WinAddEventFilter ==
  /\ pc = "idle"
  /\ \E w \in Windows, k \in WinKeys, sel \in Selevents :
       win_add_event_filter(w, k, sel, <<>>)
  /\ UNCHANGED <<tvars, dvars, avars, kvars, bvars>>

WinRemoveEventFilter ==
  /\ pc = "idle"
  /\ \E w \in Windows, k \in WinKeys, sel \in Selevents :
       win_remove_event_filter(w, k, sel, <<>>)
  /\ UNCHANGED <<tvars, dvars, avars, kvars, bvars>>

SetParent ==
  /\ pc = "idle"
  /\ \E w \in Windows, other \in Windows : set_parent(w, other)
  /\ UNCHANGED <<cvars, tvars, dvars, avars, kvars, bvars>>

\* the server sends an event about some window, or about none
WinEventArrives ==
  /\ conn = "open"
  /\ ~broken
  /\ nevents < MaxEvents
  /\ nevents' = nevents + 1
  /\ \E wins \in EventWindows, rt \in ResponseTypes :
       pending_events' = Append(pending_events, WinEv(nevents + 1, wins, rt))
  /\ UNCHANGED <<broken, cvars, dvars, avars, kvars, bvars, wvars>>

\* _handle_conn_readable calls the next entry of its copy of the filter
\* list, which is the dispatch function of a window
WinConnDispatch ==
  /\ pc = "dispatch"
  /\ UNCHANGED <<cvars, tvars, event, log, buffered, avars, kvars, bvars, win_filters, parent, children>>
  /\ IF snapshot = <<>>
       THEN pc' = "poll" /\ UNCHANGED <<snapshot, wstack>>
     ELSE /\ snapshot' = Tail(snapshot)
          /\ wstack' = Settle(<<Frame(Head(snapshot), event)>>, event)
          /\ pc' = IF wstack' = <<>> THEN "dispatch" ELSE "window"

\* what a filter of window w may do while it is being invoked: nothing,
\* or change the filters of its window
WinFilterAction(w, stk) ==
  \/ wstack' = stk /\ UNCHANGED <<cvars, win_filters, parent, children>>
  \/ \E k \in WinKeys, sel \in Selevents : win_add_event_filter(w, k, sel, stk)
  \/ \E k \in WinKeys, sel \in Selevents : win_remove_event_filter(w, k, sel, stk)

\* if selevents == None or response_type in selevents, for an entry of the
\* copy; response_type is None if the object has no such attribute
Selected(entry, e) ==
  entry.wild \/ (IsEvent(e) /\ ResponseCode(EventResponseType(e)) \in entry.codes)

\* one step of the innermost Window._conn_event_filter: the next entry of its
\* copy is popped and, if it selects the event, invoked; or the next child
\* is descended into
WinDispatchStep ==
  LET d == Len(wstack)
      top == wstack[d]
  IN
  /\ pc = "window"
  /\ UNCHANGED <<tvars, snapshot, event, buffered, avars, kvars, bvars>>
  /\ IF top.phase = "filters"
       THEN LET popped == Settle([wstack EXCEPT ![d].todo = Tail(top.todo)], event) IN
            IF Selected(Head(top.todo), event)
              THEN /\ log' = Append(log, <<event, <<top.win, Head(top.todo).key>>>>)
                   /\ WinFilterAction(top.win, popped)
              ELSE /\ wstack' = popped
                   /\ UNCHANGED <<cvars, log, win_filters, parent, children>>
     ELSE /\ \E c \in top.kids :
               wstack' = Settle(Append([wstack EXCEPT ![d].kids = @ \ {c}],
                                       Frame(c, event)), event)
          /\ UNCHANGED <<cvars, log, win_filters, parent, children>>
  /\ pc' = IF wstack' # <<>> THEN "window"
           ELSE IF IsEvent(event) THEN "dispatch" ELSE "deliver_err"

NextWin ==
  \/ WinAddEventFilter
  \/ WinRemoveEventFilter
  \/ SetParent
  \/ WinEventArrives
  \/ HandleConnReadable
  \/ PollForEvent
  \/ WinConnDispatch
  \/ WinDispatchStep
  \/ FinishReadable

SpecWin == Init /\ [][NextWin]_vars

\* ------------------------------------------------ lifetime of a Window
\* the entry (Window._conn_event_filter, (weak_ref(w),)) of a Window object
\* that has been finalized: its weak reference is dead, it equals the
\* reference of no later object for the same window id
DeadKey(w) == 0 - w
DeadKeys == {DeadKey(w) : w \in Windows}

\* the key Window.__del__ passes to Connection.remove_event_filter:
\* (self._conn_event_filter, weak_ref(self)), the reference itself where the
\* registration has the 1-tuple (weak_ref(self),); it equals no entry
del_key(w) == MaxWindows + w

\* Window.__del__ of the object for window w; Window(conn, id) then makes a
\* new object for the id, without filters, parent or children
win_del(w) ==
  LET pos == {i \in 1..Len(event_filters) : event_filters[i] = del_key(w)}
      left == IF Cardinality(pos) = 1
                THEN RemoveAt(event_filters, CHOOSE i \in pos : TRUE)
                ELSE event_filters
  IN
  /\ event_filters' = [i \in 1..Len(left) |->
                         IF left[i] = ConnKey(w) THEN DeadKey(w) ELSE left[i]]
  /\ reader' = IF Cardinality(pos) = 1 /\ conn_fd # None /\ NoWaiters(left, reply_queue)
                 THEN FALSE ELSE reader
  /\ exc' = None
  /\ win_filters' = [win_filters EXCEPT ![w] = <<>>]
  /\ parent' = [parent EXCEPT ![w] = 0]
  /\ children' = [children EXCEPT ![w] = {}]
  /\ UNCHANGED <<conn, conn_fd, reply_queue, last_sequence, fut, sets, ascending,
                 wstack>>

\* the application drops its last reference to the Window object of w
WinFinalize ==
  /\ pc = "idle"
  /\ Cardinality({i \in 1..Len(event_filters) : event_filters[i] \in DeadKeys})
       < MaxFinalized
  /\ \E w \in Windows : win_del(w)
  /\ UNCHANGED <<tvars, dvars, avars, kvars, bvars>>

NextWinLife ==
  \/ WinAddEventFilter
  \/ WinRemoveEventFilter
  \/ WinFinalize

SpecWinLife == Init /\ [][NextWinLife]_vars

\* ------------------------------------------------ a failed connection
\* for action, args in self._event_filters[:] : action(conn_err, *args), the
\* next entry of the copy being the dispatch function of a window
WinDeliverError ==
  /\ pc = "deliver_err"
  /\ UNCHANGED <<cvars, tvars, buffered, avars, kvars, bvars, win_filters, parent, children>>
  /\ IF snapshot = <<>>
       THEN /\ pc' = "idle"
            /\ event' = NoEvent
            /\ log' = <<>>
            /\ UNCHANGED <<snapshot, wstack>>
     ELSE /\ snapshot' = Tail(snapshot)
          /\ wstack' = Settle(<<Frame(Head(snapshot), event)>>, event)
          /\ pc' = IF wstack' = <<>> THEN "deliver_err" ELSE "window"
          /\ UNCHANGED <<event, log>>

NextWinErr ==
  \/ WinAddEventFilter
  \/ TransportBreaks
  \/ HandleConnReadable
  \/ PollForEvent
  \/ FinishReadable
  \/ WinDeliverError
  \/ WinDispatchStep

SpecWinErr == Init /\ [][NextWinErr]_vars

\* ------------------------------------------- reparenting that is refused
\* Window.set_parent(other, pos) when the server refuses the ReparentWindow
\* request (other is w itself or a window below w): _parent and the
\* _children sets have been updated before the request is sent, and
\* request_check raises
set_parent_refused(w, other) ==
  /\ other = w \/ other \in Below(w, MaxWindows)
  /\ children' = [c \in Windows |->
                    IF c = other THEN children[c] \cup {w}
                    ELSE IF c = parent[w] THEN children[c] \ {w}
                    ELSE children[c]]
  /\ parent' = [parent EXCEPT ![w] = other]
  /\ exc' = "BadMatch"
  /\ UNCHANGED <<win_filters, wstack, cvars_noexc>>

SetParentRefused ==
  /\ pc = "idle"
  /\ \E w \in Windows, other \in Windows : set_parent_refused(w, other)
  /\ UNCHANGED <<tvars, dvars, avars, kvars, bvars>>

NextTree ==
  \/ WinAddEventFilter
  \/ SetParent
  \/ SetParentRefused

SpecTree == Init /\ [][NextTree]_vars

\* =========================================================== KeyMapping
\* class XK and ord(): the keysyms the model uses, 0 being "no symbol"
VoidSymbol == 16777215
KP_1 == 65457
ord_a == 97
ord_z == 122
ord_A == 65
Keysyms == {0, ord_a, ord_A, KP_1}
\* KEYSYM_KEYPAD: the XK members whose name starts with KP_
KEYSYM_KEYPAD == {KP_1}
KEYCODE_MIN == 8

\* a GetKeyboardMapping reply: keysyms, keysyms_per_keycode
Mappings ==
  [keysyms : UNION {[1..n -> Keysyms] : n \in 0..MaxTable},
   keysyms_per_keycode : 1..MaxTable]

\* class STATE: the modifiers the model uses; evt.state is the set of
\* modifiers whose mask bit is set, so (evt.state & m.mask != 0) is m \in state
Modifiers == {"SHIFT", "LOCK", "MOD2", "MOD5"}
\* a KeyPressEvent: detail (the keycode) and state
KeyPressEvents ==
  [detail : {KEYCODE_MIN, KEYCODE_MIN + 1}, state : SUBSET Modifiers]

\* s[lo:hi] for a list s (Python indices from 0, hi clipped to len(s))
Slice(s, lo, hi) ==
  LET h == IF hi < Len(s) THEN hi ELSE Len(s) IN
  IF lo >= h THEN <<>> ELSE SubSeq(s, lo + 1, h)

\* variant: a zero slot takes the value the slot before it had in the reply
propagate_raw(seg, j) ==
  [k \in 1..Len(seg) |-> IF k >= j + 1 /\ seg[k] = 0 THEN seg[k - 1] ELSE seg[k]]

\* for j in range(1, len(seg)) : if seg[j] == 0 : seg[j] = seg[j - 1],
\* from Python index j on (seg[j] is element j + 1 of the sequence)
RECURSIVE propagate(_, _)
propagate(seg, j) ==
  IF j >= Len(seg) THEN seg
  ELSE propagate(IF seg[j + 1] = 0 THEN [seg EXCEPT ![j + 1] = seg[j]] ELSE seg,
                 j + 1)

\* the body of the loop of KeyMapping.__init__ for keycode index i
code_seg(mapping, i) ==
  LET per == mapping.keysyms_per_keycode
      seg == Slice(Slice(mapping.keysyms, i * per, (i + 1) * per), 0, 4)
      padded == seg \o [k \in 1..(4 - Len(seg)) |-> 0]
  IN propagate(padded, 1)

\* KeyMapping.__init__(mapping, start_keycode): the value of _code_syms
KeyMapping_init(mapping, start_keycode) ==
  LET n == Len(mapping.keysyms) \div mapping.keysyms_per_keycode IN
  {<<i + start_keycode, code_seg(mapping, i)>> :
     i \in {i \in 0..(n - 1) : code_seg(mapping, i)[1] # 0}}

\* if ord("a") <= keysym <= ord("z") : keysym -= ord("a") - ord("A")
upcase(k) == IF ord_a <= k /\ k <= ord_z THEN k - (ord_a - ord_A) ELSE k

\* variant: the test for no shift and no lock comes before the numlock test
choose_keysym_numlock_last(entry, shift, lock, numlock, sl) ==
  IF ~(shift \/ lock) THEN entry[1]
  ELSE IF numlock /\ entry[2] \in KEYSYM_KEYPAD
    THEN (IF shift \/ (lock /\ sl) THEN entry[1] ELSE entry[2])
  ELSE IF lock /\ ~sl
    THEN upcase(IF shift THEN entry[2] ELSE entry[1])
  ELSE IF shift \/ (lock /\ sl) THEN entry[2]
  ELSE VoidSymbol

\* the if / elif chain of map_simple over the two slots of the chosen group
choose_keysym(entry, shift, lock, numlock, sl) ==
  IF numlock /\ entry[2] \in KEYSYM_KEYPAD
    THEN (IF shift \/ (lock /\ sl) THEN entry[1] ELSE entry[2])
  ELSE IF ~(shift \/ lock) THEN entry[1]
  ELSE IF lock /\ ~sl
    THEN upcase(IF shift THEN entry[2] ELSE entry[1])
  ELSE IF shift \/ (lock /\ sl) THEN entry[2]
  ELSE VoidSymbol

\* KeyMapping.map_simple(evt).  In the test
\*   self.mode_switch_mod != None and evt.state & mode_switch_mod.mask != 0
\* the second operand reads the name mode_switch_mod, which is bound
\* nowhere in the module: it is evaluated, and raises NameError, whenever
\* self.mode_switch_mod is not None; otherwise the test is false and the
\* entry is entry[0:2].
map_simple(syms, msm, nlm, sl, evt) ==
  IF ~DictHas(syms, evt.detail) THEN Returned(VoidSymbol)
  ELSE IF msm # Nothing THEN Raised
  ELSE LET entry == Slice(DictGet(syms, evt.detail), 0, 2)
           shift == "SHIFT" \in evt.state
           lock == "LOCK" \in evt.state
           numlock == nlm # Nothing /\ nlm[1] \in evt.state
       IN Returned(choose_keysym(entry, shift, lock, numlock, sl))

\* KeyMapping.obtain_from: celf(mapping, KEYCODE_MIN) with the reply received
KeyMappingNew ==
  /\ k_mapping # Nothing
  /\ code_syms' = KeyMapping_init(k_mapping[1], KEYCODE_MIN)
  /\ k_mapping' = Nothing
  /\ mode_switch_mod' = Nothing
  /\ numlock_mod' = Some("MOD2")
  /\ lock_is_shift_lock' = FALSE
  /\ UNCHANGED keysym
  /\ UNCHANGED <<cvars, tvars, dvars, avars, wvars, bvars>>

\* the application assigns one of the three public attributes
KeyMappingConfigure ==
  /\ k_mapping = Nothing
  /\ \/ /\ mode_switch_mod' \in {Nothing, Some("MOD5")}
        /\ UNCHANGED <<numlock_mod, lock_is_shift_lock>>
     \/ /\ numlock_mod' \in {Nothing, Some("MOD2")}
        /\ UNCHANGED <<mode_switch_mod, lock_is_shift_lock>>
     \/ /\ lock_is_shift_lock' \in BOOLEAN
        /\ UNCHANGED <<mode_switch_mod, numlock_mod>>
  /\ UNCHANGED <<k_mapping, code_syms, keysym>>
  /\ UNCHANGED <<cvars, tvars, dvars, avars, wvars, bvars>>

\* the application calls map_simple(evt)
MapSimple ==
  /\ k_mapping = Nothing
  /\ \E evt \in KeyPressEvents :
       keysym' = map_simple(code_syms, mode_switch_mod, numlock_mod,
                            lock_is_shift_lock, evt)
  /\ UNCHANGED <<k_mapping, code_syms, mode_switch_mod, numlock_mod,
                 lock_is_shift_lock>>
  /\ UNCHANGED <<cvars, tvars, dvars, avars, wvars, bvars>>

InitKey ==
  /\ ConnectionInit
  /\ AtomCacheInit(TRUE)
  /\ WindowInit
  /\ \E m \in Mappings : KeyMappingInit(Some(m), {})
  /\ ButtonInit(TRUE)

\* a KeyMapping is built from each reply
SpecKey == InitKey /\ [][KeyMappingNew]_vars

\* replies that give every keycode MaxTable keysyms: at most one keycode
OneKeycodeReplies == {m \in Mappings : m.keysyms_per_keycode = MaxTable}

\* a KeyMapping built from such a reply is configured and used
InitKeyMap ==
  /\ ConnectionInit
  /\ AtomCacheInit(TRUE)
  /\ WindowInit
  /\ \E m \in OneKeycodeReplies :
       KeyMappingInit(Nothing, KeyMapping_init(m, KEYCODE_MIN))
  /\ ButtonInit(TRUE)

NextKeyMap ==
  \/ KeyMappingConfigure
  \/ MapSimple

SpecKeyMap == InitKeyMap /\ [][NextKeyMap]_vars

\* ======================================================== ButtonHandler
\* handle_expose: the BUTTON_STATE handed to handle_draw
button_state(en, pr, ent) ==
  IF en THEN (IF pr /\ ent THEN "HIGHLIGHTED" ELSE "NORMAL") ELSE "DISABLED"

\* ButtonHandler.set_enabled(enabled)
SetEnabled ==
  /\ \E e \in BOOLEAN :
       /\ enabled' = e
       /\ drawn' = IF e # enabled THEN button_state(e, pressed, entered) ELSE drawn
  /\ last_call' = "set_enabled"
  /\ UNCHANGED <<pressed, entered, clicks>>
  /\ UNCHANGED <<cvars, tvars, dvars, avars, wvars, kvars>>

\* ButtonHandler.handle_expose(button, evt) for an Expose event
HandleExpose ==
  /\ drawn' = button_state(enabled, pressed, entered)
  /\ last_call' = "expose"
  /\ UNCHANGED <<enabled, pressed, entered, clicks>>
  /\ UNCHANGED <<cvars, tvars, dvars, avars, wvars, kvars>>

\* ButtonHandler.handle_press(button, evt) for a ButtonPress event
HandlePress ==
  /\ IF enabled
       THEN /\ pressed' = TRUE
            /\ drawn' = button_state(enabled, TRUE, entered)
       ELSE UNCHANGED <<pressed, drawn>>
  /\ last_call' = "press"
  /\ UNCHANGED <<enabled, entered, clicks>>
  /\ UNCHANGED <<cvars, tvars, dvars, avars, wvars, kvars>>

\* ButtonHandler.handle_enter(button, evt) for an EnterNotify event
HandleEnter ==
  /\ IF enabled
       THEN /\ entered' = TRUE
            /\ drawn' = IF pressed THEN button_state(enabled, pressed, TRUE) ELSE drawn
       ELSE UNCHANGED <<entered, drawn>>
  /\ last_call' = "enter"
  /\ UNCHANGED <<enabled, pressed, clicks>>
  /\ UNCHANGED <<cvars, tvars, dvars, avars, wvars, kvars>>

\* ButtonHandler.handle_leave(button, evt) for a LeaveNotify event
HandleLeave ==
  /\ entered' = FALSE
  /\ drawn' = IF pressed THEN button_state(enabled, pressed, FALSE) ELSE drawn
  /\ last_call' = "leave"
  /\ UNCHANGED <<enabled, pressed, clicks>>
  /\ UNCHANGED <<cvars, tvars, dvars, avars, wvars, kvars>>

\* if self.pressed and self.entered : self.handle_click(...)
click_on_release(en, pr, ent) == pr /\ ent

\* ButtonHandler.handle_release(button, evt) for a ButtonRelease event
HandleRelease ==
  /\ click_on_release(enabled, pressed, entered) => clicks < MaxClicks
  /\ clicks' = IF click_on_release(enabled, pressed, entered) THEN clicks + 1 ELSE clicks
  /\ pressed' = FALSE
  /\ drawn' = button_state(enabled, FALSE, entered)
  /\ last_call' = "release"
  /\ UNCHANGED <<enabled, entered>>
  /\ UNCHANGED <<cvars, tvars, dvars, avars, wvars, kvars>>

InitButton ==
  /\ ConnectionInit
  /\ AtomCacheInit(TRUE)
  /\ WindowInit
  /\ KeyMappingInit(Nothing, {})
  /\ \E e \in BOOLEAN : ButtonInit(e)

NextButton ==
  \/ SetEnabled
  \/ HandleExpose
  \/ HandlePress
  \/ HandleEnter
  \/ HandleLeave
  \/ HandleRelease

SpecButton == InitButton /\ [][NextButton]_vars

\* ================================================================ claims
Waiters == Len(event_filters) + Len(reply_queue)
Healthy == conn # None /\ conn_fd # None
\* the readiness callback has found the transport broken (and close() was not called)
FatalSeen == conn # None /\ conn_fd = None
Done(fs) == {f \in 1..Len(fs) : fs[f] # "pending"}
\* the request is new by the rule of the specification
IsNew(last, seq) ==
  \/ last = NoSeq
  \/ WLess(last, seq)
  \/ WLess(WAdd(seq, sequence_jump), last)
\* the filters of the invocations logged so far, in order
Targets(l) == [i \in 1..Len(l) |-> l[i][2]]

\* C1: while no fatal error has been detected and close() has not been called,
\* after every completed add_event_filter, remove_event_filter, wait_for_reply
\* and readiness callback the reader is installed iff there is a waiter.
C1_SubscriptionInvariant ==
  (pc = "idle" /\ Healthy) => (reader <=> Waiters > 0)

\* a reply went through the queue and a callback, which then dropped the reader
C1_Witness ==
  /\ pc = "idle" /\ Healthy /\ ~reader
  /\ Len(fut) > 0 /\ fut[1] = "reply"

\* C2: while every wait_for_reply call so far was non-void with a strictly
\* larger sequence number, futures complete in the order they were returned,
\* and only as the head of the queue taken by the start of a readiness
\* callback: at most one per callback.
C2_FifoReplies ==
  [][ascending' # NotAscending =>
       /\ \A f \in Done(fut') : \A g \in 1..f : g \in Done(fut')
       /\ Done(fut') # Done(fut) =>
            /\ pc = "idle" /\ reader /\ reply_queue # <<>>
            /\ Done(fut') = Done(fut) \cup {Head(reply_queue)}
            /\ reply_queue' = Tail(reply_queue)]_vars

C2_Witness ==
  /\ ascending # NotAscending
  /\ Len(fut) = 2 /\ fut[1] = "reply" /\ fut[2] = "reply"

\* C3: wait_for_reply sets last_sequence to the request's sequence number
\* exactly when last_sequence is None, or the number is larger, or the number
\* plus sequence_jump is smaller than last_sequence, and a non-void request is
\* queued exactly then; with last_sequence = 2^32 - 100 and sequence 50 the
\* request is new.
C3_SequenceClassification ==
  [][\A c \in Cookies : wait_for_reply(c) =>
       /\ last_sequence' = IF IsNew(last_sequence, c.sequence)
                             THEN c.sequence ELSE last_sequence
       /\ (~c.void /\ exc' = None) =>
            (IsNew(last_sequence, c.sequence) <=> Len(reply_queue') = Len(reply_queue) + 1)
       /\ (last_sequence = Wide(Base - 1, Base - 100) /\ c.sequence = Num(50)) =>
            last_sequence' = Num(50)]_vars

\* two requests are queued, the second with the smaller number 50: wraparound
C3_Witness ==
  /\ Len(reply_queue) = 2
  /\ ascending = NotAscending
  /\ last_sequence = Num(50)

\* C4: a non-void request that is not new is answered synchronously: the future
\* wait_for_reply returns is already resolved or rejected, and the reply queue
\* and the subscription are as before.
C4_SyncReplyFrame ==
  [][\A c \in Cookies :
       (wait_for_reply(c) /\ ~c.void /\ ~IsNew(last_sequence, c.sequence)) =>
         /\ reply_queue' = reply_queue
         /\ reader' = reader
         /\ exc' = None =>
              /\ Len(fut') = Len(fut) + 1
              /\ fut'[Len(fut')] \in {"reply", "exception"}]_vars

\* the second request was not new and completed while the first is still queued
C4_Witness ==
  /\ Len(fut) = 2 /\ fut[1] = "pending" /\ fut[2] = "reply"
  /\ reply_queue = <<1>>

\* C5 as stated: a new non-void request is appended to the reply queue, the
\* subscription is installed afterwards, and the future is pending.
C5_Original ==
  [][\A c \in Cookies :
       (wait_for_reply(c) /\ ~c.void /\ IsNew(last_sequence, c.sequence) /\ exc' = None) =>
         /\ reply_queue' = Append(reply_queue, Len(fut) + 1)
         /\ reader'
         /\ fut'[Len(fut')] = "pending"]_vars

\* C5 (amended): a new non-void request is appended at the tail of the reply
\* queue and its future is pending; the subscription is installed afterwards
\* provided no fatal error was detected and close() was not called; a queued
\* future leaves the pending state only when the start of a readiness callback
\* pops it as the head of the queue.
C5_QueuedReply ==
  [][
      /\ \A c \in Cookies :
          (wait_for_reply(c) /\ ~c.void /\ IsNew(last_sequence, c.sequence) /\ exc' = None) =>
            /\ reply_queue' = Append(reply_queue, Len(fut) + 1)
            /\ Len(fut') = Len(fut) + 1
            /\ fut'[Len(fut')] = "pending"
            /\ Healthy => reader'
      /\ \A f \in Range(reply_queue) :
           /\ fut[f] = "pending"
           /\ fut'[f] # "pending" =>
                (pc = "idle" /\ reader /\ f = Head(reply_queue) /\ reply_queue' = Tail(reply_queue))]_vars

\* a request was queued behind another one, with the reader installed
C5_Witness ==
  /\ Healthy /\ reader /\ pc = "idle"
  /\ reply_queue = <<1, 2>>
  /\ fut = <<"pending", "pending">>

\* C6: the start of a readiness callback pops exactly the head of a non-empty
\* reply queue and invokes it, before any event is taken from the transport or
\* dispatched; the rest of the queue keeps its order, and nothing else is
\* popped during the callback.
C6_OneReplyFirst ==
  [][
      /\ (HandleConnReadable /\ reply_queue # <<>>) =>
          /\ reply_queue' = Tail(reply_queue)
          /\ IF conn # None
               THEN /\ fut'[Head(reply_queue)] # "pending"
                    /\ sets'[Head(reply_queue)] = sets[Head(reply_queue)] + 1
               ELSE exc' # None
          /\ \A f \in 1..Len(fut) : f # Head(reply_queue) => (fut'[f] = fut[f] /\ sets'[f] = sets[f])
          /\ pending_events' = pending_events
          /\ log' = <<>>
      /\ pc # "idle" =>
          /\ Len(reply_queue') >= Len(reply_queue)
          /\ SubSeq(reply_queue', 1, Len(reply_queue)) = reply_queue
          /\ \A f \in 1..Len(fut) : fut'[f] = fut[f] /\ sets'[f] = sets[f]]_vars

\* a callback completed the head of a two-entry queue and is now dispatching an event
C6_Witness ==
  /\ pc = "dispatch"
  /\ reply_queue = <<2>>
  /\ fut = <<"reply", "pending">>

\* C7: once the readiness callback that found the transport broken has
\* returned, no future still in the reply queue is pending.
C7_PendingRepliesRejected ==
  (pc = "idle" /\ FatalSeen) => \A f \in Range(reply_queue) : fut[f] # "pending"

\* why a future left behind by C7 stays pending for good: with the cached fd
\* None and no reader, no step installs the reader or changes a future that
\* exists
C7_StuckForGood ==
  [][(conn_fd = None /\ ~reader) =>
       (~reader' /\ \A f \in 1..Len(fut) : fut'[f] = fut[f])]_vars

\* C8: when the readiness callback finds the transport broken the cached fd
\* becomes None, the error is handed exactly once, in registration order, to
\* every filter registered at that moment, and from then on the reader is
\* never installed again.
C8_FatalErrorDelivery ==
  [][
      /\ (pc = "finish" /\ broken /\ conn_fd # None) =>
          /\ conn_fd' = None
          /\ ~reader'
          /\ pc' = "deliver_err"
          /\ log' = <<>>
          /\ snapshot' = event_filters
      /\ pc = "deliver_err" =>
          /\ event = ConnErr
          /\ \A i \in 1..Len(log) : log[i][1] = ConnErr
          /\ Targets(log') \o snapshot' = Targets(log) \o snapshot \/ pc' = "idle"
          /\ pc' = "idle" => snapshot = <<>>
      /\ (conn_fd = None /\ ~reader) => ~reader']_vars

\* the error has been handed to both registered filters
C8_Witness ==
  /\ pc = "deliver_err" /\ snapshot = <<>>
  /\ Targets(log) = <<1, 2>>
  /\ FatalSeen /\ ~reader

\* C9: a future is set at most once, and when its reply is fetched it is
\* rejected if the transport reports an error at that time and resolved with
\* the reply otherwise.
C9_SingleResolution ==
  [][
      /\ \A f \in 1..Len(fut') : sets'[f] <= 1 /\ (fut'[f] = "pending" <=> sets'[f] = 0)
      /\ \A f \in 1..Len(fut) :
           /\ fut[f] # "pending" => fut'[f] = fut[f]
           /\ (fut[f] = "pending" /\ fut'[f] # "pending") =>
                fut'[f] = IF broken THEN "exception" ELSE "reply"
      /\ (Len(fut') > Len(fut) /\ fut'[Len(fut')] \notin {"pending", "none"}) =>
           fut'[Len(fut')] = IF broken THEN "exception" ELSE "reply"]_vars

\* one future was rejected on a broken transport, another resolved before
C9_Witness ==
  /\ Len(fut) = 2
  /\ fut[1] = "reply" /\ fut[2] = "exception"

\* C10: after close() no reader of this Connection is installed.
C10_CloseRemovesReader ==
  conn = None => ~reader

\* the filters invoked so far for event e, in order
EventTargets(l, e) == Targets(SelectSeq(l, LAMBDA x : x[1] = e))
NoDuplicates(fs) == \A i, j \in 1..Len(fs) : fs[i] = fs[j] => i = j

\* C11: the dispatch of one event works through the filter list as it was
\* when the dispatch of that event began: the filters already invoked for
\* the event followed by the filters still to be invoked stay equal to that
\* list, in registration order, whatever the invoked filters add to or
\* remove from the live list, and the dispatch ends only when all of them
\* have been invoked; so every such filter is invoked exactly once and a
\* filter added meanwhile is not invoked for this event.
C11_SnapshotDispatch ==
  [][
      /\ (pc = "poll" /\ pc' = "dispatch") =>
            /\ snapshot' = event_filters
            /\ EventTargets(log', event') = <<>>
      /\ (pc = "dispatch" /\ pc' = "dispatch") =>
            /\ event' = event
            /\ EventTargets(log', event) \o snapshot' = EventTargets(log, event) \o snapshot
      /\ (pc = "dispatch" /\ pc' # "dispatch") => snapshot = <<>>]_vars

\* filter 1, invoked for the event, has removed filter 2, which is still to
\* be invoked
C11_Witness ==
  /\ pc = "dispatch"
  /\ EventTargets(log, event) = <<1>>
  /\ snapshot = <<2>>
  /\ event_filters = <<1>>

\* C13: add_event_filter with a key that is already registered raises
\* KeyError and leaves the filter list, the reply queue and the reader as
\* they were; the filter list never holds the same key twice.
C13_DuplicateAddRejected ==
  [][
      /\ \A k \in FilterKeys :
            (add_event_filter(k) /\ k \in Range(event_filters)) =>
               /\ exc' = "KeyError"
               /\ UNCHANGED <<event_filters, reply_queue, reader>>
      /\ NoDuplicates(event_filters')]_vars

\* every key is registered and the last call was rejected
C13_Witness ==
  /\ exc = "KeyError"
  /\ Range(event_filters) = FilterKeys
  /\ pc = "idle"

\* C14: remove_event_filter for a key that is not registered raises KeyError
\* when optional is false and returns normally when optional is true; either
\* way the filter list, the reply queue and the reader stay as they were.
C14_RemoveUnregistered ==
  [][
      \A k \in FilterKeys, optional \in BOOLEAN :
        (remove_event_filter(k, optional) /\ k \notin Range(event_filters)) =>
           /\ exc' = (IF optional THEN None ELSE "KeyError")
           /\ UNCHANGED <<event_filters, reply_queue, reader>>]_vars

\* a removal was rejected while nothing was registered
C14_Witness ==
  /\ exc = "KeyError"
  /\ event_filters = <<>>
  /\ pc = "idle"

\* ------------------------------------------------------ AtomCache claims
LookupIds == 1..Len(lookups)
\* the future of lookup l is not resolved
Unresolved(l) == lookups[l].st \in {"queued", "awaiting", "replied", "failed"}
\* the request of lookup l has been sent
Sent(l) == lookups[l].st \in {"awaiting", "replied", "done", "failed"}
LiveTasks == {p \in tasks : p[2] \in {"ready", "waiting"}}

\* C17: a call of intern_atom_async for a name that is not cached, made while
\* an earlier call for the same name has not resolved, creates no lookup and
\* sends no request of its own: it waits for the future of the earlier call;
\* the same holds for get_atom_name_async and an atom.  Every lookup sends
\* its request once, and the result of its future, which all of its callers
\* return, never changes.
C17_OverlappingCallsShareRequest ==
  [][
      /\ \A name \in NameArgs, create_if \in BOOLEAN :
           (/\ intern_atom_async(name, create_if)
            /\ ~DictHas(name_to_atom, encode(name))
            /\ \E l \in LookupIds : /\ lookups[l].kind = "intern"
                                    /\ lookups[l].name = Text(name)
                                    /\ Unresolved(l))
           => /\ Len(lookups') = Len(lookups)
              /\ \E l \in LookupIds :
                   /\ lookups[l].kind = "intern" /\ lookups[l].name = Text(name)
                   /\ lookups' = [lookups EXCEPT ![l].joined = @ + 1,
                                                 ![l].jcreate = Append(@, create_if)]
      /\ \A atom \in DefinedAtoms :
           (/\ get_atom_name_async(atom)
            /\ ~DictHas(atom_to_name, atom)
            /\ \E l \in LookupIds : /\ lookups[l].kind = "name"
                                    /\ lookups[l].atom = atom
                                    /\ Unresolved(l))
           => /\ Len(lookups') = Len(lookups)
              /\ \E l \in LookupIds :
                   /\ lookups[l].kind = "name" /\ lookups[l].atom = atom
                   /\ lookups' = [lookups EXCEPT ![l].joined = @ + 1,
                                                 ![l].jcreate = Append(@, FALSE)]
      /\ \A l \in LookupIds :
           /\ lookups[l].nreq = (IF Sent(l) THEN 1 ELSE 0)
           /\ (lookups[l].st = "done" /\ lookups'[l].st = "done")
                => lookups'[l].result = lookups[l].result]_vars

\* a second call waits for the resolved future of the first, whose one
\* request was answered with an atom
C17_Witness ==
  \E l \in LookupIds :
    /\ lookups[l].kind = "intern"
    /\ lookups[l].st = "done"
    /\ lookups[l].nreq = 1
    /\ lookups[l].joined = 1
    /\ lookups[l].result # Nothing

\* C18: at most one drain task is alive and at most one lookup has sent its
\* request and not yet resumed with the reply; the queue holds the lookups
\* not yet started in the order of their creation, and a lookup has started
\* only if every lookup created before it has completed.
C18_OneLookupAtATime ==
  /\ Cardinality(LiveTasks) <= 1
  /\ Cardinality({l \in LookupIds : lookups[l].st \in {"awaiting", "replied"}}) <= 1
  /\ \A i \in 1..Len(lookup_queue) :
       /\ lookups[lookup_queue[i]].st = "queued"
       /\ \A j \in 1..(i - 1) : lookup_queue[j] < lookup_queue[i]
  /\ \A l \in LookupIds :
       /\ lookups[l].st = "queued" => \E i \in 1..Len(lookup_queue) : lookup_queue[i] = l
       /\ lookups[l].st # "queued" =>
            \A k \in 1..(l - 1) : lookups[k].st \in {"done", "retired"}

\* one lookup awaits its reply while the next one is queued behind it
C18_Witness ==
  /\ Len(lookups) >= 2
  /\ lookups[1].st = "awaiting"
  /\ lookups[2].st = "queued"
  /\ Cardinality(LiveTasks) = 1

\* C19: in the step that resolves the future of a lookup with an atom or a
\* name, both maps hold the mapping; in the step in which the call that
\* created the lookup resumes, the entry of the pending map for the key is
\* deleted.
C19_CacheFilledBeforeResolution ==
  [][
      \A l \in LookupIds :
        /\ (/\ lookups[l].st = "replied"
            /\ lookups'[l].st = "done"
            /\ lookups'[l].result # Nothing)
           => /\ <<Bytes(lookups'[l].name), lookups'[l].atom>> \in name_to_atom'
              /\ <<lookups'[l].atom, Bytes(lookups'[l].name)>> \in atom_to_name'
              /\ lookups'[l].result =
                   (IF lookups[l].kind = "intern" THEN Some(lookups'[l].atom)
                                                  ELSE Some(Bytes(lookups'[l].name)))
        /\ (lookups[l].first = "waiting" /\ lookups'[l].first # "waiting")
           => /\ lookups[l].st = "done"
              /\ lookups'[l].first = "returned"
              /\ IF lookups[l].kind = "intern"
                   THEN ~DictHas(name_lookup_pending', lookups[l].name)
                   ELSE ~DictHas(atom_lookup_pending', lookups[l].atom)]_vars

\* a future was resolved with an atom while the call that created the
\* lookup has not resumed yet
C19_Witness ==
  \E l \in LookupIds :
    /\ lookups[l].kind = "intern"
    /\ lookups[l].st = "done"
    /\ lookups[l].first = "waiting"
    /\ lookups[l].result = Some(ServerAtom(lookups[l].name))
    /\ DictHas(name_lookup_pending, lookups[l].name)

\* C20: when the server answers the InternAtom request of intern_atom or of
\* intern_atom_async (create_if false, name not defined) with atom 0, the
\* result is None and both maps stay as they were.
C20_MissGivesNone ==
  [][
      /\ \A name \in NameArgs :
           (/\ intern_atom(name, FALSE)
            /\ ~DictHas(name_to_atom, encode(name))
            /\ InternAnswer(server_names, Text(name), TRUE) = 0)
           => /\ apply_intern_reply(name_to_atom, atom_to_name, encode(name), 0).result = Nothing
              /\ UNCHANGED <<name_to_atom, atom_to_name>>
      /\ \A l \in LookupIds :
           (/\ lookups[l].kind = "intern"
            /\ lookups[l].st = "replied"
            /\ lookups[l].atom = 0
            /\ lookups'[l].st = "done")
           => /\ lookups'[l].result = Nothing
              /\ UNCHANGED <<name_to_atom, atom_to_name>>]_vars

\* the future of a lookup made with create_if false was resolved with None,
\* and the name is in neither map
C20_Witness ==
  \E l \in LookupIds :
    /\ lookups[l].kind = "intern"
    /\ ~lookups[l].create_if
    /\ lookups[l].st = "done"
    /\ lookups[l].result = Nothing
    /\ ~DictHas(name_to_atom, Bytes(lookups[l].name))
    /\ ~DictHas(Swap(atom_to_name), Bytes(lookups[l].name))

\* --------------------------------------------------------- Window claims
\* the innermost running Window._conn_event_filter is about to look at the
\* next entry of its copy
AtFilter == pc = "window" /\ wstack[Len(wstack)].phase = "filters"
NextEntry == Head(wstack[Len(wstack)].todo)
DispatchingWindow == wstack[Len(wstack)].win
\* the step invokes the filter of the next entry for the event
Invoked == log' = Append(log, <<event, <<DispatchingWindow, NextEntry.key>>>>)
\* the event code the specification selects by
EventCode(e) == EventResponseType(e) % (2^7)

\* C12: a filter of a window that was registered for the event when the
\* window's dispatch of the event began (wildcard, or its set held the
\* event's code when the copy was made) is invoked for the event in that
\* pass, whatever the filters invoked before it in the pass have removed.
C12_WindowSnapshotDispatch ==
  [][
      AtFilter =>
        ((NextEntry.wild \/ EventCode(event) \in NextEntry.codes0) => Invoked)]_vars

\* C15: a filter that is registered with a set of event codes when its turn
\* comes is invoked for an event relevant to its window if and only if the
\* event's response_type & 127 is in the set, a wildcard filter always; no
\* filter is looked at for an event that is not relevant to its window.
C15_EventCodeSelection ==
  [][
      AtFilter =>
        /\ Relevant(DispatchingWindow, event)
        /\ (\E i \in 1..Len(win_filters[DispatchingWindow]) :
              win_filters[DispatchingWindow][i] =
                [key |-> NextEntry.key, wild |-> NextEntry.wild,
                 codes |-> NextEntry.codes])
           => (Invoked <=> (NextEntry.wild \/ EventCode(event) \in NextEntry.codes))
        /\ Invoked \/ log' = log]_vars

\* a filter registered for KeyPress only has been invoked for a KeyPress
\* event sent by another client
C15_Witness ==
  /\ pc \in {"window", "dispatch"}
  /\ EventResponseType(event) = KeyPress + SentBit
  /\ \E i \in 1..Len(log), w \in Windows, j \in 1..MaxWinFilters :
       /\ j <= Len(win_filters[w])
       /\ log[i][2] = <<w, win_filters[w][j].key>>
       /\ ~win_filters[w][j].wild
       /\ win_filters[w][j].codes = {KeyPress}

\* C16: while one event is dispatched, no filter of a window is invoked for
\* it more than once.
C16_ExactlyOnceInTree ==
  \A i, j \in 1..Len(log) : log[i] = log[j] => i = j
\* C21: flush() leaves both maps holding exactly the predefined atoms when
\* preload_standard is set and nothing otherwise, whatever was cached
\* before; nothing else of the cache changes.
C21_FlushResets ==
  [][
      Flush =>
        /\ name_to_atom' = (IF preload_standard THEN XA_NAME ELSE {})
        /\ atom_to_name' =
             (IF preload_standard THEN {<<p[2], p[1]>> : p \in XA_NAME} ELSE {})
        /\ \A p \in name_to_atom : p \notin XA_NAME => p \notin name_to_atom'
        /\ \A p \in atom_to_name : <<p[2], p[1]>> \notin XA_NAME
                                      => p \notin atom_to_name'
        /\ UNCHANGED <<lookups, lookup_queue, name_lookup_pending,
                       atom_lookup_pending, preload_standard>>]_vars

\* a lookup has cached an application atom and resolved its future, and the
\* maps no longer hold that atom: flush has run since
C21_Witness ==
  \E l \in LookupIds :
    /\ lookups[l].st = "done"
    /\ lookups[l].result # Nothing
    /\ lookups[l].name \in Names \ {"PRIMARY"}
    /\ ~DictHas(name_to_atom, Bytes(lookups[l].name))
    /\ ~DictHas(atom_to_name, lookups[l].atom)
\* C22: wait_for_reply on a void request returns a future that is already
\* resolved with None and leaves the reply queue, the subscription and
\* last_sequence as they were.
C22_VoidRequestFrame ==
  [][\A c \in Cookies :
       (wait_for_reply(c) /\ c.void) =>
         /\ Len(fut') = Len(fut) + 1
         /\ fut'[Len(fut')] = "none"
         /\ reply_queue' = reply_queue
         /\ reader' = reader
         /\ last_sequence' = last_sequence]_vars
C24_NoReplyStarvation ==
  [][
      /\ (HandleConnReadable /\ reply_queue # <<>> /\ conn # None /\ ~broken
             /\ fut[Head(reply_queue)] = "pending") =>
           /\ fut'[Head(reply_queue)] = "reply"
           /\ pending_events' = pending_events
           /\ log' = <<>>
           /\ pc' = "poll"
           /\ \A k \in 2..Len(reply_queue) :
                /\ k - 1 <= Len(reply_queue')
                /\ reply_queue'[k - 1] = reply_queue[k]
      /\ ~HandleConnReadable =>
           /\ Len(reply_queue') >= Len(reply_queue)
           /\ \A k \in 1..Len(reply_queue) : reply_queue'[k] = reply_queue[k]
      /\ (pc = "finish" /\ pc' = "idle" /\ ~broken /\ conn_fd # None
             /\ conn # None /\ reply_queue # <<>>) => reader']_vars

\* two waiters were queued one after the other, and the second callback has
\* completed the second one while an event was buffered in the transport
C24_Witness ==
  /\ pc = "poll"
  /\ buffered # <<>>
  /\ pending_events = buffered
  /\ ascending # NotAscending
  /\ Len(fut) = 2 /\ fut[1] = "reply" /\ fut[2] = "reply"
  /\ reply_queue = <<>>
\* ----------------------------------------------------- KeyMapping claims
\* the keycode indices of a reply, and slot j (0..3) of keycode index i as
\* the reply gives it: keysym j of the keycode's group of
\* keysyms_per_keycode keysyms, 0 beyond the group
KeycodeIndices(m) == 0..((Len(m.keysyms) \div m.keysyms_per_keycode) - 1)
RawSlot(m, i, j) ==
  IF j < m.keysyms_per_keycode
    THEN m.keysyms[i * m.keysyms_per_keycode + j + 1] ELSE 0
\* slot j after every zero slot has taken, from left to right, the value of
\* the slot before it: the nearest non-zero slot at or before j, 0 if none
FilledSlot(m, i, j) ==
  LET nz == {k \in 0..j : RawSlot(m, i, k) # 0} IN
  IF nz = {} THEN 0
  ELSE RawSlot(m, i, CHOOSE k \in nz : \A k2 \in nz : k2 <= k)

\* C25: the table KeyMapping.__init__ stores has, for every keycode of the
\* reply whose first keysym is not zero, the first four keysyms of the
\* keycode, padded with zeros, each zero slot after the first replaced from
\* left to right by the slot before it; it has no entry for a keycode whose
\* first keysym is zero, no entry for anything else, and no zero slot.
C25_KeyMappingConstruction ==
  [][
      KeyMappingNew =>
        LET m == k_mapping[1] IN
        /\ \A i \in KeycodeIndices(m) :
             IF RawSlot(m, i, 0) = 0
               THEN ~DictHas(code_syms', i + KEYCODE_MIN)
             ELSE /\ DictHas(code_syms', i + KEYCODE_MIN)
                  /\ DictGet(code_syms', i + KEYCODE_MIN) =
                       [j \in 1..4 |-> FilledSlot(m, i, j - 1)]
        /\ \A p \in code_syms' :
             /\ p[1] - KEYCODE_MIN \in KeycodeIndices(m)
             /\ Len(p[2]) = 4
             /\ \A j \in 1..4 : p[2][j] # 0
        /\ \A p, q \in code_syms' : p[1] = q[1] => p = q]_vars

\* three keycodes of a reply of five keysyms are stored, so the reply had
\* one keysym per keycode: every entry was padded and filled from its first
\* slot, and keycode 9, whose keysym was zero, was dropped
C25_Witness ==
  /\ k_mapping = Nothing
  /\ DictHas(code_syms, KEYCODE_MIN)
  /\ ~DictHas(code_syms, KEYCODE_MIN + 1)
  /\ DictHas(code_syms, KEYCODE_MIN + 2)
  /\ DictGet(code_syms, KEYCODE_MIN + 2) = <<KP_1, KP_1, KP_1, KP_1>>
  /\ DictHas(code_syms, KEYCODE_MIN + 4)

\* C26: a keycode whose keysyms in the reply are [x, y, 0, 0] with x and y
\* not zero is stored as [x, y, x, y].
C26_GroupDefault ==
  [][
      KeyMappingNew =>
        LET m == k_mapping[1] IN
        \A i \in KeycodeIndices(m) :
          (/\ RawSlot(m, i, 0) # 0 /\ RawSlot(m, i, 1) # 0
           /\ RawSlot(m, i, 2) = 0 /\ RawSlot(m, i, 3) = 0) =>
            /\ DictHas(code_syms', i + KEYCODE_MIN)
            /\ DictGet(code_syms', i + KEYCODE_MIN) =
                 <<RawSlot(m, i, 0), RawSlot(m, i, 1),
                   RawSlot(m, i, 0), RawSlot(m, i, 1)>>]_vars

\* the resolution rules of the X11 core protocol over a lower and an upper
\* slot, in their order of precedence
ResolveKeysym(lower, upper, shift, lock, numlock, sl) ==
  LET keypad == numlock /\ upper \in KEYSYM_KEYPAD
      plain == ~keypad /\ ~shift /\ ~lock
      caps == ~keypad /\ ~plain /\ lock /\ ~sl
      picked == IF shift THEN upper ELSE lower
  IN CASE keypad -> (IF shift \/ (lock /\ sl) THEN lower ELSE upper)
       [] plain -> lower
       [] caps -> (IF picked \in ord_a..ord_z THEN picked - ord_a + ord_A ELSE picked)
       [] OTHER -> upper
\* what map_simple is to return for evt from slots g and g + 1 of the entry
Resolved(evt, g) ==
  LET entry == DictGet(code_syms, evt.detail) IN
  ResolveKeysym(entry[g], entry[g + 1],
                "SHIFT" \in evt.state, "LOCK" \in evt.state,
                numlock_mod # Nothing /\ numlock_mod[1] \in evt.state,
                lock_is_shift_lock)
\* the step is a call map_simple(evt)
MapSimpleOf(evt) ==
  /\ k_mapping = Nothing
  /\ keysym' = map_simple(code_syms, mode_switch_mod, numlock_mod,
                          lock_is_shift_lock, evt)
  /\ UNCHANGED <<code_syms, mode_switch_mod, numlock_mod, lock_is_shift_lock>>

\* C27: with mode_switch_mod unset, map_simple returns the void symbol for a
\* keycode that has no entry and otherwise the keysym the resolution rules
\* give for slots 0 and 1 of the entry; for an entry [a, A, ...] that is a
\* with no modifier, A with shift only and A with caps lock only.
C27_MapSimpleOrder ==
  [][
      \A evt \in KeyPressEvents :
        (MapSimpleOf(evt) /\ mode_switch_mod = Nothing) =>
          IF ~DictHas(code_syms, evt.detail)
            THEN keysym' = Returned(VoidSymbol)
          ELSE /\ keysym' = Returned(Resolved(evt, 1))
               /\ (/\ DictGet(code_syms, evt.detail)[1] = ord_a
                   /\ DictGet(code_syms, evt.detail)[2] = ord_A) =>
                    /\ evt.state = {} => keysym' = Returned(ord_a)
                    /\ evt.state = {"SHIFT"} => keysym' = Returned(ord_A)
                    /\ (evt.state = {"LOCK"} /\ ~lock_is_shift_lock)
                         => keysym' = Returned(ord_A)]_vars

\* the only entry has a in both slots of group 1 and map_simple returned A:
\* caps lock was on and the keysym was converted to upper case
C27_Witness ==
  /\ k_mapping = Nothing
  /\ code_syms = {<<KEYCODE_MIN, <<ord_a, ord_a, ord_a, ord_a>>>>}
  /\ mode_switch_mod = Nothing
  /\ ~lock_is_shift_lock
  /\ keysym = Returned(ord_A)

\* C28: with mode_switch_mod configured, map_simple for a keycode that has
\* an entry returns the keysym the resolution rules give for slots 2 and 3
\* when the modifier is set in the event's state and for slots 0 and 1 when
\* it is not.
C28_ModeSwitch ==
  [][
      \A evt \in KeyPressEvents :
        (/\ MapSimpleOf(evt)
         /\ mode_switch_mod # Nothing
         /\ DictHas(code_syms, evt.detail)) =>
          keysym' = Returned(Resolved(evt, IF mode_switch_mod[1] \in evt.state
                                             THEN 3 ELSE 1))]_vars
\* ------------------------------------------------ window selector claims
\* the invocations that are running while a call made by the application
\* (none) or by the filter being invoked (the rest of the dispatch) executes
CallStack ==
  IF pc = "idle" THEN <<>>
  ELSE Settle([wstack EXCEPT ![Len(wstack)].todo = Tail(@)], event)
\* the step may be a call on window w: by the application, or by a filter
\* of w that is being invoked
CallOn(w) == pc = "idle" \/ (AtFilter /\ DispatchingWindow = w /\ Invoked)
PosOf(w, k) == {i \in 1..Len(win_filters[w]) : win_filters[w][i].key = k}
OthersKept(w, i) ==
  /\ Len(win_filters'[w]) = Len(win_filters[w])
  /\ \A j \in 1..Len(win_filters[w]) : j # i => win_filters'[w][j] = win_filters[w][j]
  /\ \A v \in Windows : v # w => win_filters'[v] = win_filters[v]

\* C29: Window.add_event_filter for a key that is registered: when the
\* stored selector and the one passed are both sets, the entry stays where
\* it is with the union of the two sets; when both are wildcards nothing
\* changes; when one is a wildcard and the other is not, the call raises
\* ValueError and the filter list is unchanged.  There is one entry for the
\* key afterwards, every other entry is as before, and the filter list of
\* the Connection is unchanged.
C29_SelectorMerge ==
  [][
      \A w \in Windows, k \in WinKeys, sel \in Selevents :
        (/\ CallOn(w)
         /\ PosOf(w, k) # {}
         /\ win_add_event_filter(w, k, sel, CallStack)) =>
          LET i == CHOOSE i \in PosOf(w, k) : TRUE
              old == win_filters[w][i]
          IN
          /\ event_filters' = event_filters
          /\ reader' = reader
          /\ IF old.wild # sel.wild
               THEN exc' = "ValueError" /\ win_filters' = win_filters
             ELSE /\ exc' = None
                  /\ OthersKept(w, i)
                  /\ win_filters'[w][i] =
                       [key |-> k, wild |-> old.wild,
                        codes |-> IF old.wild THEN {} ELSE old.codes \cup sel.codes]
                  /\ Cardinality({j \in 1..Len(win_filters'[w]) :
                                    win_filters'[w][j].key = k}) = 1]_vars

\* a filter that was copied for the dispatch with one event code is
\* registered, in the same window, with that code and another: codes were
\* added to its entry while the dispatch was running
C29_Witness ==
  /\ pc = "window"
  /\ \E f \in 1..Len(wstack) : \E n \in 1..Len(wstack[f].todo) :
       \E i \in 1..Len(win_filters[wstack[f].win]) :
         /\ win_filters[wstack[f].win][i].key = wstack[f].todo[n].key
         /\ wstack[f].todo[n].codes0 = {KeyPress}
         /\ win_filters[wstack[f].win][i].codes = {KeyPress, ButtonPress}

\* C30: Window.remove_event_filter for a key that is registered: a set
\* passed for an entry with a set leaves the entry where it is with the
\* difference of the two sets if that is not empty and deletes the entry if
\* it is empty; a wildcard passed for a wildcard entry deletes the entry;
\* when one is a wildcard and the other is not, the call raises ValueError
\* and the filter list, and the set object the running dispatch shares with
\* it, are unchanged.  Every other entry is as before.
C30_SelectorSubtract ==
  [][
      \A w \in Windows, k \in WinKeys, sel \in Selevents :
        (/\ CallOn(w)
         /\ PosOf(w, k) # {}
         /\ win_remove_event_filter(w, k, sel, CallStack)) =>
          LET i == CHOOSE i \in PosOf(w, k) : TRUE
              old == win_filters[w][i]
          IN
          IF old.wild # sel.wild
            THEN /\ exc' = "ValueError"
                 /\ win_filters' = win_filters
                 /\ wstack' = CallStack
          ELSE IF ~old.wild /\ old.codes \ sel.codes # {}
            THEN /\ exc' = None
                 /\ OthersKept(w, i)
                 /\ win_filters'[w][i] =
                      [key |-> k, wild |-> FALSE, codes |-> old.codes \ sel.codes]
          ELSE /\ exc' = None
               /\ win_filters'[w] = RemoveAt(win_filters[w], i)
               /\ \A v \in Windows : v # w => win_filters'[v] = win_filters[v]]_vars

\* a filter that was copied for the dispatch with two event codes is still
\* registered, with one of them: the other was subtracted while the
\* dispatch was running
C30_Witness ==
  /\ pc = "window"
  /\ \E f \in 1..Len(wstack) : \E n \in 1..Len(wstack[f].todo) :
       \E i \in 1..Len(win_filters[wstack[f].win]) :
         /\ win_filters[wstack[f].win][i].key = wstack[f].todo[n].key
         /\ wstack[f].todo[n].codes0 = {KeyPress, ButtonPress}
         /\ wstack[f].todo[n].shared
         /\ win_filters[wstack[f].win][i].codes = {ButtonPress}

\* C32 as stated: Window.add_event_filter for a key that is registered
\* without a selector, called again without a selector, raises an error and
\* leaves the filter list of the window unchanged.
C32_Original ==
  [][
      \A w \in Windows, k \in WinKeys :
        (/\ CallOn(w)
         /\ PosOf(w, k) # {}
         /\ \A i \in PosOf(w, k) : win_filters[w][i].wild
         /\ win_add_event_filter(w, k, Wildcard, CallStack)) =>
          exc' # None /\ win_filters' = win_filters]_vars

\* C32: Window.add_event_filter for a key that is registered without a
\* selector, called again without a selector, returns normally and changes
\* neither the filter list of the window nor that of the Connection nor the
\* copies a running dispatch works on.
C32_WindowDuplicateAdd ==
  [][
      \A w \in Windows, k \in WinKeys :
        (/\ CallOn(w)
         /\ PosOf(w, k) # {}
         /\ \A i \in PosOf(w, k) : win_filters[w][i].wild
         /\ win_add_event_filter(w, k, Wildcard, CallStack)) =>
          /\ exc' = None
          /\ win_filters' = win_filters
          /\ event_filters' = event_filters
          /\ reader' = reader
          /\ wstack' = CallStack]_vars

\* a filter registered without a selector has just been invoked and is
\* still registered, once, and the last call returned normally: the state
\* in which its second registration by itself leaves the window
C32_Witness ==
  /\ pc = "window"
  /\ exc = None
  /\ log # <<>>
  /\ LET last == log[Len(log)][2] IN
       /\ Cardinality(PosOf(last[1], last[2])) = 1
       /\ \A i \in PosOf(last[1], last[2]) : win_filters[last[1]][i].wild
       /\ IsRegistered(event_filters, ConnKey(last[1]))

C33_PredefinedCacheHit ==
  [][
      \A name \in {Str("PRIMARY"), Bytes("PRIMARY")}, create_if \in BOOLEAN :
        /\ (/\ preload_standard
            /\ intern_atom(name, create_if)
            /\ UNCHANGED <<lookups, lookup_queue, name_lookup_pending>>)
           => UNCHANGED <<name_to_atom, atom_to_name>>
        /\ (/\ preload_standard
            /\ intern_atom_async(name, create_if))
           => UNCHANGED <<lookups, lookup_queue, name_lookup_pending>>]_vars

\* C37: in every state of the cache the two maps are inverse of each other:
\* name_to_atom maps n to a exactly when atom_to_name maps a to n.
C37_CacheConsistency ==
  atom_to_name = Swap(name_to_atom)

\* C36: with a server that answers, a call intern_atom_async(name, create_if
\* = TRUE) that waited for the lookup of another call does not resume with
\* None.
C36_CoalescingRespectsCreateIf ==
  [][
      \A l \in LookupIds :
        (/\ lookups[l].kind = "intern"
         /\ lookups[l].st = "done"
         /\ lookups[l].joined > 0
         /\ Head(lookups[l].jcreate)
         /\ lookups' = Retire([lookups EXCEPT ![l].joined = @ - 1,
                                              ![l].jcreate = Tail(@)]))
        => lookups[l].result # Nothing]_vars

\* C34: whenever the lookup queue is not empty, a drain task that is alive
\* (created and not yet run, or suspended in a lookup) is there to take the
\* queued lookups up, also after an earlier lookup failed with a connection
\* error.
C34_QueueHasDrainTask ==
  lookup_queue # <<>> => LiveTasks # {}

\* ------------------------------------------------- Window lifetime claims
\* C31: the filter list of the Connection holds no dispatch entry of a
\* Window object that has been finalized, and with no entry and no reply
\* waiter left the reader is not installed.
C31_NoStaleDispatchEntry ==
  /\ \A i \in 1..Len(event_filters) : event_filters[i] \notin DeadKeys
  /\ (\A w \in Windows : win_filters[w] = <<>>) => ~reader

\* C38: whatever set_parent calls were made, accepted by the server or not,
\* no window is below itself in the local parent / children relation (so
\* the descent of Window._conn_event_filter into the children ends).
C38_NoCycle ==
  \A w \in Windows : w \notin Below(w, MaxWindows)

\* C39: when the Connection hands the error object of a failed connection
\* to its filters, every filter of a window whose turn comes in the
\* window's dispatch is invoked with it, registered for every event or for
\* a set of event codes.
C39_ErrorReachesWindowFilters ==
  [][
      (AtFilter /\ ~IsEvent(event)) => Invoked]_vars

\* ------------------------------------------------- ButtonHandler claims
\* C40: handle_click is invoked only by handle_release, and only when the
\* button is enabled, pressed and entered at that time; a release on a
\* disabled button invokes nothing.
C40_ClickRule ==
  [][
      clicks' # clicks =>
        /\ last_call' = "release"
        /\ clicks' = clicks + 1
        /\ enabled /\ pressed /\ entered]_vars
====
